---- MODULE Spec2Model ----
(***************************************************************************)
(* VSC (Video Speed Controller) content script: the media registry, the    *)
(* active-media selection and the anti-reset rate guard of                 *)
(* src/content/media.js, with the keyboard and overlay-button handlers of  *)
(* src/content/keys.js and src/content/dom.js that drive them.             *)
(*                                                                         *)
(* Units.  Playback rates are integers in hundredths (1.0x = 100).  Times  *)
(* are milliseconds as returned by Date.now().  A visibility ratio is a    *)
(* percentage (0..100).  An element area is in units of 10000 px^2, the    *)
(* divisor of the area term of the score.                                  *)
(***************************************************************************)
EXTENDS Integers, Sequences, FiniteSets, TLC

(***************************************************************************)
(* Bounds of the model.                                                    *)
(***************************************************************************)
NumMedia == 2
MaxIds == 2
MaxTicks == 2
MaxPending == 2
MaxSetups == 2
MaxPresses == 2

(***************************************************************************)
(* Program constants.                                                      *)
(***************************************************************************)
PlayingBonus == 1000
VisWeight == 500
RecencyMs == 5000
GuardMs == 500
Epsilon == 1
MinRate == 25
MaxRate == 400
DefaultRate == 100

\* settings.step as configured on the options page (valid: 0 < step <= 1).
\* rememberSpeed is 'off': no stored speed is applied to a discovered element.
Settings ==
  [step |-> 75, seekSec |-> 10, antiResetPatch |-> TRUE, rememberSpeed |-> "off",
   kbWorksWhenHidden |-> TRUE]

\* The clock starts at a Date.now() value that is more than RecencyMs after the
\* epoch (lastInteraction = 0 earns no bonus).  It advances in steps of half a
\* guard window where the guard is followed, and of two guard windows where
\* the selection is followed.
StartNow == 2 * RecencyMs
GuardTick == GuardMs \div 2
SelectTick == 2 * GuardMs

Media == 1..NumMedia
Ids == 1..MaxIds

\* <<visibility percent, area in 10000 px^2>> of the elements on the page: the
\* first element is small and at most a fifth of it is in the viewport, the
\* others are larger and fully visible.
Layouts ==
  { g \in [Media -> { <<0, 5>>, <<20, 5>>, <<100, 20>> }] :
      /\ g[1] \in { <<0, 5>>, <<20, 5>> }
      /\ \A m \in Media \ {1} : g[m] = <<100, 20>> }

\* Rates page scripts write to an element.
PageRates == { 100, 250 }

(***************************************************************************)
(* JavaScript numbers that can be passed as a speed: finite values (in     *)
(* hundredths), NaN and the two infinities.                                *)
(***************************************************************************)
Num(i) == [k |-> "num", v |-> i]
NaN == [k |-> "nan", v |-> 0]
PosInf == [k |-> "pinf", v |-> 0]
NegInf == [k |-> "ninf", v |-> 0]

\* a < b on JavaScript numbers (false when either is NaN).
Less(a, b) ==
  /\ a.k # "nan" /\ b.k # "nan"
  /\ \/ a.k = "ninf" /\ b.k # "ninf"
     \/ b.k = "pinf" /\ a.k # "pinf"
     \/ a.k = "num" /\ b.k = "num" /\ a.v < b.v

MathMax(a, b) ==
  IF a.k = "nan" \/ b.k = "nan" THEN NaN ELSE IF Less(a, b) THEN b ELSE a

MathMin(a, b) ==
  IF a.k = "nan" \/ b.k = "nan" THEN NaN ELSE IF Less(b, a) THEN b ELSE a

\* utils.clamp: Math.min(Math.max(value, min), max)
clamp(value, min, max) == MathMin(MathMax(value, min), max)

\* clamp on finite playback rates, as used by the key and button handlers.
ClampRate(r) == clamp(Num(r), Num(MinRate), Num(MaxRate)).v

Abs(x) == IF x < 0 THEN -x ELSE x

VARIABLES
  now,        \* Date.now()
  paused,     \* media.paused of each element
  rate,       \* media.playbackRate of each element
  geometry,   \* <<visibility, area>> of each element
  vscId,      \* media._vscId (0: none)
  nextId,     \* the next id utils.createId hands out
  registry,   \* the keys of media._registry, in insertion order
  entries,    \* the entry objects, by id (they outlive the registry)
  listeners,  \* per element, the entries whose anti-reset listeners are attached
  pending,    \* per element, the queued ratechange notifications
  active,     \* media._activeMedia (0: null)
  call,       \* the applySpeed call of the last step, if any
  prior,      \* the applySpeed call made just before it in the same step, if any
  observed,   \* <<element, rate seen>> of the notification handled in the last step
  chosen,     \* what chooseActiveMedia returned in the last step (-1: not called)
  returned,   \* what activeMedia() returned in the last step (-1: not called)
  guardWrites,\* per element, guard writes since the last change from outside the guard
  currentTime,\* media.currentTime of each element, in seconds
  duration,   \* media.duration of each element (PosInf: a live stream)
  syncStore,  \* what chrome.storage.sync holds
  defaultDomains, \* the array DEFAULTS.disabledDomains
  op,         \* the call of the settings API under way
  waiting,    \* loadSettings calls polling _isLoading
  outcome,    \* the last settings call that returned
  localStore, \* what chrome.storage.local holds (0: no value)
  page,       \* the page the content script runs in
  memMode,    \* settings.rememberSpeed
  last,       \* the last storeSpeed / getStoredSpeed call
  lastGlobal, \* the speed last stored in 'global' mode (0: none)
  lastSite,   \* for each origin, the speed last stored there in 'site' mode
  disabledList, \* settings.disabledDomains
  started,    \* content.init got to keys.init and startMediaDiscovery
  overlays,   \* the overlays media discovery registered
  initCheck,  \* what content.init found
  keyCheck,   \* what the last key press found
  keymap,     \* options page: currentSettings.keymap
  isListeningForKey, \* options page: a key input waits for a key
  currentKeyInput,   \* options page: the action whose input waits ("": none)
  timers,     \* options page: keyup timeouts not yet fired
  capture,    \* options page: the last key capture
  bridge,     \* page world: window.__VSC (preferredRate, isEnabled, patch)
  attempt,    \* page world: window.__VSC.mediaElements
  vscAt,      \* when the content script last wrote each element's rate (0: never)
  write,      \* the last write of playbackRate by page code
  inDom,      \* which elements are in the document
  mediaElements, \* content script: _mediaElements, the elements set up
  overlayCount,  \* the overlays that exist for each element
  passes,     \* the discoverMedia calls under way
  loops,      \* the loop fields of the entry objects, by id
  loopListeners, \* per element, the entries whose timeupdate handler is attached
  toggled,    \* the last toggleLoop call
  jump,       \* the last timeupdate event on an element with a loop handler
  visible,    \* overlay.isVisible of each element
  setups,     \* the calls of keys.setupKeyListeners so far
  isEnabled,  \* keys._isEnabled
  inflight,   \* the handleKeyDown invocations of the current key press
  presses,    \* the key presses so far
  press,      \* the last key press and what was done for it
  cache,      \* state._settings (NullSettings: null)
  isLoading   \* state._isLoading

\* currentTime and overlay visibility; the keyboard handler; what no action of
\* the media registry touches.
seekVars == << currentTime, visible >>
keyVars == << setups, isEnabled, inflight, presses, press >>
setVars == << cache, isLoading >>
stVars == << syncStore, defaultDomains, op, waiting, outcome >>
memVars == << localStore, page, memMode, last, lastGlobal, lastSite >>
domVars == << disabledList, started, overlays, initCheck, keyCheck >>
optVars == << keymap, isListeningForKey, currentKeyInput, timers, capture >>
bridgeVars == << bridge, attempt, vscAt, write >>
discVars == << inDom, mediaElements, overlayCount, passes >>
loopVars == << loops, loopListeners, toggled, jump >>
lateVars == << bridgeVars, discVars, loopVars >>
pageVars == << memVars, domVars, optVars, lateVars >>
extra == << stVars, pageVars >>
others == << duration, setVars, extra >>

vars == << now, paused, rate, geometry, vscId, nextId, registry, entries,
           listeners, pending, active, call, prior, observed, chosen, returned,
           guardWrites, seekVars, keyVars, others >>

NullSettings == [step |-> 0]

\* A keydown target: its tag name, its contentEditable attribute as the DOM
\* reports it, and whether the element is editable (isContentEditable).
Target(tag, ce, editable) == [tag |-> tag, ce |-> ce, editable |-> editable]

NoPress ==
  [made |-> FALSE, action |-> "", target |-> Target("", "", FALSE), enabled |-> FALSE,
   media |-> 0, execs |-> 0, prefCalls |-> 0, prevented |-> FALSE, time |-> 0]

\* No handleKeyDown invocation is pending or suspended.
NoneInFlight == [action |-> "", sync |-> 0, loader |-> "none", waiters |-> 0]

NoEntry == [media |-> 0, lastInteraction |-> 0, antiResetUntil |-> 0, preferredSpeed |-> 0]

NoCall ==
  [made |-> FALSE, media |-> 0, speed |-> Num(0), force |-> FALSE, time |-> 0,
   refused |-> FALSE, blocked |-> FALSE, threw |-> FALSE, wrote |-> FALSE, shown |-> FALSE,
   queued |-> 0, preRate |-> 0, postRate |-> 0, pre |-> NoEntry, post |-> NoEntry]

(***************************************************************************)
(* media.js: registry lookups.                                             *)
(***************************************************************************)
InRegistry(id) == \E i \in 1..Len(registry) : registry[i] = id

\* getMediaEntry: the id of the element's registry entry, 0 for none.
getMediaEntry(m) == IF vscId[m] # 0 /\ InRegistry(vscId[m]) THEN vscId[m] ELSE 0

\* updateInteraction on entry object e at time t.
updateInteraction(e, t) == [e EXCEPT !.lastInteraction = t]

(***************************************************************************)
(* media.js: chooseActiveMedia.                                            *)
(***************************************************************************)
\* A score without the bonus for playing.
ScoreNoPlaying(id) ==
  LET e == entries[id]
      g == geometry[e.media]
      since == now - e.lastInteraction
  IN  (VisWeight * g[1]) \div 100
      + (IF since < RecencyMs THEN (RecencyMs - since) \div 10 ELSE 0)
      + g[2]

\* The score of one registry entry (media.js:159-183).
Score(id) ==
  LET e == entries[id]
      g == geometry[e.media]
      since == now - e.lastInteraction
  IN  (IF ~paused[e.media] THEN PlayingBonus ELSE 0)
      + (VisWeight * g[1]) \div 100
      + (IF since < RecencyMs THEN (RecencyMs - since) \div 10 ELSE 0)
      + g[2]

\* The first entry, in registry order, of maximal score: a stable sort by
\* descending score puts it first.
BestIndex ==
  CHOOSE i \in 1..Len(registry) :
    /\ \A j \in 1..Len(registry) : Score(registry[j]) <= Score(registry[i])
    /\ \A j \in 1..(i - 1) : Score(registry[j]) < Score(registry[i])

chooseActiveMedia ==
  IF Len(registry) = 0 THEN 0
  ELSE IF Len(registry) = 1 THEN entries[registry[1]].media
  ELSE entries[registry[BestIndex]].media

\* Does activeMedia() with no argument call chooseActiveMedia?
NeedsChoice == active = 0 \/ ~InRegistry(vscId[active])

\* activeMedia() with no argument: the value of _activeMedia it leaves and returns.
activeMedia == IF NeedsChoice THEN chooseActiveMedia ELSE active

(***************************************************************************)
(* media.js: the rate guard.                                               *)
(***************************************************************************)
\* Variants of applySpeed and of the guard test that the properties below must
\* tell from the program's: one that skips the guard test, one that records
\* the applied rate as the preferred one, one that opens the guard window
\* before the write, and a guard that is never open.
applySpeedUnguarded(e, cur, speed, force, t, writeThrows) ==
  LET s == clamp(speed, Num(MinRate), Num(MaxRate))
  IN  IF s.k # "num" \/ writeThrows
      THEN [entry |-> e, rate |-> cur, blocked |-> FALSE, threw |-> TRUE,
            wrote |-> FALSE, shown |-> FALSE]
      ELSE [entry |-> [e EXCEPT !.antiResetUntil = t + GuardMs], rate |-> s.v,
            blocked |-> FALSE, threw |-> FALSE, wrote |-> TRUE, shown |-> TRUE]

applySpeedSetsPreferred(e, cur, speed, force, t, writeThrows) ==
  IF ~force /\ e.antiResetUntil # 0 /\ t < e.antiResetUntil
  THEN [entry |-> e, rate |-> cur, blocked |-> TRUE, threw |-> FALSE,
        wrote |-> FALSE, shown |-> FALSE]
  ELSE LET s == clamp(speed, Num(MinRate), Num(MaxRate))
       IN  IF s.k # "num" \/ writeThrows
           THEN [entry |-> e, rate |-> cur, blocked |-> FALSE, threw |-> TRUE,
                 wrote |-> FALSE, shown |-> FALSE]
           ELSE [entry |-> [e EXCEPT !.antiResetUntil = t + GuardMs,
                                     !.preferredSpeed = s.v],
                 rate |-> s.v,
                 blocked |-> FALSE, threw |-> FALSE, wrote |-> TRUE, shown |-> TRUE]

applySpeedGuardFirst(e, cur, speed, force, t, writeThrows) ==
  IF ~force /\ e.antiResetUntil # 0 /\ t < e.antiResetUntil
  THEN [entry |-> e, rate |-> cur, blocked |-> TRUE, threw |-> FALSE,
        wrote |-> FALSE, shown |-> FALSE]
  ELSE LET s == clamp(speed, Num(MinRate), Num(MaxRate))
           opened == [e EXCEPT !.antiResetUntil = t + GuardMs]
       IN  IF s.k # "num" \/ writeThrows
           THEN [entry |-> opened, rate |-> cur, blocked |-> FALSE, threw |-> TRUE,
                 wrote |-> FALSE, shown |-> FALSE]
           ELSE [entry |-> opened, rate |-> s.v,
                 blocked |-> FALSE, threw |-> FALSE, wrote |-> TRUE, shown |-> TRUE]

GuardNever(e, t) == FALSE

\* entry.antiResetUntil && Date.now() < entry.antiResetUntil
GuardOpen(e, t) == e.antiResetUntil # 0 /\ t < e.antiResetUntil

\* applySpeed on entry object e of an element whose rate is cur; writeThrows
\* says whether the element refuses the write.  A non-finite value makes the
\* playbackRate setter throw a TypeError.
applySpeed(e, cur, speed, force, t, writeThrows) ==
  IF ~force /\ GuardOpen(e, t)
  THEN [entry |-> e, rate |-> cur, blocked |-> TRUE, threw |-> FALSE,
        wrote |-> FALSE, shown |-> FALSE]
  ELSE LET s == clamp(speed, Num(MinRate), Num(MaxRate))
       IN  IF s.k # "num" \/ writeThrows
           THEN [entry |-> e, rate |-> cur, blocked |-> FALSE, threw |-> TRUE,
                 wrote |-> FALSE, shown |-> FALSE]
           ELSE [entry |-> [e EXCEPT !.antiResetUntil = t + GuardMs], rate |-> s.v,
                 blocked |-> FALSE, threw |-> FALSE, wrote |-> TRUE, shown |-> TRUE]

setPreferredSpeed(e, speed, t) ==
  [e EXCEPT !.preferredSpeed = speed, !.antiResetUntil = t + GuardMs]

\* A handler that restarts the guard window with each correction.
handleRateChangeRefreshes(e, cur, t) ==
  IF GuardOpen(e, t)
  THEN LET preferredSpeed == IF e.preferredSpeed # 0 THEN e.preferredSpeed ELSE DefaultRate
       IN  IF Abs(cur - preferredSpeed) > Epsilon
           THEN [entry |-> [e EXCEPT !.antiResetUntil = t + GuardMs],
                 rate |-> preferredSpeed, wrote |-> TRUE]
           ELSE [entry |-> e, rate |-> cur, wrote |-> FALSE]
  ELSE [entry |-> e, rate |-> cur, wrote |-> FALSE]

\* setupAntiReset's handleRateChange for the entry object e it closed over, on
\* an element whose rate is cur: the entry and the rate it leaves.
handleRateChange(e, cur, t) ==
  IF GuardOpen(e, t)
  THEN LET preferredSpeed == IF e.preferredSpeed # 0 THEN e.preferredSpeed ELSE DefaultRate
       IN  IF Abs(cur - preferredSpeed) > Epsilon
           THEN [entry |-> e, rate |-> preferredSpeed, wrote |-> TRUE]
           ELSE [entry |-> e, rate |-> cur, wrote |-> FALSE]
  ELSE [entry |-> e, rate |-> cur, wrote |-> FALSE]

\* The anti-reset listeners of one element run in the order they were added,
\* on the entry objects es.  The result: the entry objects, the element's
\* rate, the guard's writes, and the ratechange notifications those writes
\* queue (one per write that changes the rate).
RECURSIVE RunListeners(_, _, _, _)
RunListeners(ls, es, cur, t) ==
  IF ls = << >> THEN [entries |-> es, rate |-> cur, writes |-> 0, queued |-> 0]
  ELSE LET h == handleRateChange(es[Head(ls)], cur, t)
           rest == RunListeners(Tail(ls), [es EXCEPT ![Head(ls)] = h.entry], h.rate, t)
       IN  [entries |-> rest.entries,
            rate |-> rest.rate,
            writes |-> rest.writes + (IF h.wrote THEN 1 ELSE 0),
            queued |-> rest.queued + (IF h.rate # cur THEN 1 ELSE 0)]

(***************************************************************************)
(* The initial state: the page's elements exist, at rate 1.0, and none is  *)
(* registered yet.                                                         *)
(***************************************************************************)
(***************************************************************************)
(* The settings object of state.js: its step and its disabledDomains.  A   *)
(* settings object is [step, disabledDomains, shared]; shared tells that   *)
(* its disabledDomains is the very array of DEFAULTS (object spread and    *)
(* _validateSettings copy the reference, not the array).                   *)
(***************************************************************************)
DefaultStep == 10
MaxStep == 100
MaxWaiting == 1
MaxCalls == 3

Domains == { "a.com", "b.org" }
StepArgs == { 50, 200 }

\* DEFAULTS as shipped, and as it is now.
ShippedDefaults == [step |-> DefaultStep, disabledDomains |-> {}]
DEFAULTS == [step |-> DefaultStep, disabledDomains |-> defaultDomains, shared |-> TRUE]

\* The contents of a settings object.
Plain(s) == [step |-> s.step, disabledDomains |-> s.disabledDomains]

EmptyStore == [saved |-> FALSE, step |-> 0, disabledDomains |-> {}]

\* state._validateSettings
validateSettings(s) ==
  [s EXCEPT !.step = IF s.step <= 0 \/ s.step > MaxStep THEN DefaultStep ELSE s.step]

\* { ...this.DEFAULTS, ...result } for the result of chrome.storage.sync.get
FromStore ==
  IF syncStore.saved
  THEN [step |-> syncStore.step, disabledDomains |-> syncStore.disabledDomains,
        shared |-> FALSE]
  ELSE DEFAULTS

\* state.getSettings
getSettings == IF cache # NullSettings THEN Plain(cache) ELSE Plain(DEFAULTS)

NoOp == [kind |-> "none", stage |-> "", arg |-> 0, before |-> ShippedDefaults,
         obj |-> NullSettings]

NoOutcome == [kind |-> "none", failed |-> FALSE, before |-> ShippedDefaults,
              value |-> ShippedDefaults, cached |-> NullSettings, loading |-> FALSE,
              calls |-> 0]

\* The pages a content script runs in, and the outcome of
\* new URL(window.location.href).origin for them (utils.getDomain).
\* port is "" for the scheme's default port, else ":" and the number.
Page(scheme, host, port, path) ==
  [scheme |-> scheme, host |-> host, port |-> port, path |-> path]

Pages ==
  { Page("https", "a.com", "", "/"), Page("https", "a.com", "", "/watch"),
    Page("http", "a.com", "", "/"), Page("https", "b.org", "", "/") }

getDomain(p) == p.scheme \o "://" \o p.host \o p.port

Origins == { getDomain(p) : p \in Pages }

Modes == { "off", "global", "site" }
Speeds == { 50, 150 }

\* The key speeds are kept under in chrome.storage.local.
SpeedKeyShared(mode, origin) == "vsc_global_speed"

SpeedKey(mode, origin) ==
  IF mode = "global" THEN "vsc_global_speed" ELSE "vsc_site_speed_" \o origin

SpeedKeys == { SpeedKey(mode, o) : mode \in { "global", "site" }, o \in Origins }

NoLast == [op |-> "none", mode |-> "off", origin |-> "", speed |-> 0, ok |-> TRUE,
           value |-> 0, changed |-> FALSE]

InitSt ==
  /\ syncStore = EmptyStore
  /\ defaultDomains = {}
  /\ op = NoOp
  /\ waiting = 0
  /\ outcome = NoOutcome

InitMem ==
  /\ localStore = [k \in SpeedKeys |-> 0]
  /\ page = Page("https", "a.com", "", "/")
  /\ memMode = Settings.rememberSpeed
  /\ last = NoLast
  /\ lastGlobal = 0
  /\ lastSite = [o \in Origins |-> 0]

NoCheck == [made |-> FALSE, page |-> Page("", "", "", ""), list |-> {},
            verdict |-> FALSE, acted |-> FALSE]

InitDom ==
  /\ disabledList = {}
  /\ started = TRUE
  /\ overlays = 0
  /\ initCheck = NoCheck
  /\ keyCheck = NoCheck

\* DEFAULTS.keymap
DefaultKeymap ==
  [a \in { "dec", "inc", "reset", "back", "fwd", "toggle" } |->
     CASE a = "dec" -> "KeyS" [] a = "inc" -> "KeyD" [] a = "reset" -> "KeyR"
       [] a = "back" -> "KeyZ" [] a = "fwd" -> "KeyX" [] a = "toggle" -> "KeyV"]

NoCapture == [made |-> FALSE, refusable |-> FALSE, changed |-> FALSE]

InitOpt ==
  /\ keymap = DefaultKeymap
  /\ isListeningForKey = FALSE
  /\ currentKeyInput = ""
  /\ timers = 0
  /\ capture = NoCapture

\* window.__VSC as page-bridge.js creates it (preferredRate 0: null; patched:
\* originalPlaybackRate is stored and the prototype's setter is the guarded one).
NewBridge == [preferredRate |-> 0, isEnabled |-> FALSE, patched |-> FALSE]

NoAttempt == [set |-> FALSE, attemptedRate |-> 0, timestamp |-> 0]

NoWrite == [made |-> FALSE, media |-> 0, value |-> 0, after |-> 0,
            isEnabled |-> FALSE, preferredRate |-> 0, patched |-> FALSE,
            recentVsc |-> FALSE]

InitBridge ==
  /\ bridge = NewBridge
  /\ attempt = [m \in Media |-> NoAttempt]
  /\ vscAt = [m \in Media |-> 0]
  /\ write = NoWrite

InitDisc ==
  /\ inDom = [m \in Media |-> TRUE]
  /\ mediaElements = {}
  /\ overlayCount = [m \in Media |-> 0]
  /\ passes = << >>

\* The loop fields registerMedia gives an entry (None: null).
None == -1

NoLoop == [loopStart |-> None, loopEnd |-> None, isLooping |-> FALSE, loopCleanup |-> FALSE]

NoToggle == [made |-> FALSE, media |-> 0, id |-> 0, time |-> 0, pre |-> NoLoop,
             post |-> NoLoop, heard |-> 0]

NoJump == [made |-> FALSE, media |-> 0, from |-> 0, to |-> 0, status |-> FALSE]

InitLoopVars ==
  /\ loops = [id \in Ids |-> NoLoop]
  /\ loopListeners = [m \in Media |-> << >>]
  /\ toggled = NoToggle
  /\ jump = NoJump

InitLate == InitBridge /\ InitDisc /\ InitLoopVars

InitPage == InitMem /\ InitDom /\ InitOpt /\ InitLate

InitExtra == InitSt /\ InitPage

InitContent ==
  /\ now = StartNow
  /\ paused \in [Media -> BOOLEAN]
  /\ rate = [m \in Media |-> DefaultRate]
  /\ geometry \in Layouts
  /\ vscId = [m \in Media |-> 0]
  /\ nextId = 1
  /\ registry = << >>
  /\ entries = [id \in Ids |-> NoEntry]
  /\ listeners = [m \in Media |-> << >>]
  /\ pending = [m \in Media |-> 0]
  /\ active = 0
  /\ call = NoCall
  /\ prior = NoCall
  /\ observed = << 0, 0 >>
  /\ chosen = -1
  /\ returned = -1
  /\ guardWrites = [m \in Media |-> 0]
  /\ currentTime = [m \in Media |-> Settings.seekSec]
  /\ duration \in [Media -> { Num(3 * Settings.seekSec), PosInf }]
  /\ visible = [m \in Media |-> TRUE]
  /\ setups = 1
  /\ isEnabled = TRUE
  /\ inflight = NoneInFlight
  /\ presses = 0
  /\ press = NoPress

Init ==
  /\ InitContent
  /\ cache = Settings
  /\ isLoading = FALSE
  /\ InitExtra

NoGhost ==
  /\ call' = NoCall /\ prior' = NoCall
  /\ observed' = << 0, 0 >> /\ chosen' = -1 /\ returned' = -1

\* The record of one applySpeed call on element m with result a.
CallRecord(m, e, speed, force, throws, a) ==
  [made |-> TRUE, media |-> m, speed |-> speed, force |-> force, time |-> now,
   refused |-> throws, blocked |-> a.blocked, threw |-> a.threw, wrote |-> a.wrote, shown |-> a.shown,
   queued |-> IF a.rate # rate[m] THEN 1 ELSE 0,
   preRate |-> rate[m], postRate |-> a.rate, pre |-> e, post |-> a.entry]

(***************************************************************************)
(* media.js: the loop between two points.  A loop is the loop fields of    *)
(* one entry; ls is the sequence of the entries whose handleTimeUpdate is  *)
(* attached to the entry's element; times are in seconds.                  *)
(***************************************************************************)
\* The times currentTime takes where loops are followed: multiples of the
\* seek step, from the start of the media.
MaxTime == 2

LoopTimes == { k * Settings.seekSec : k \in 0..MaxTime }

\* Everything but the loop variables that the registry's actions leave alone.
nonLoop == << duration, setVars, stVars, memVars, domVars, optVars, bridgeVars, discVars >>

\* entry.loopCleanup(): removeEventListener of the handler startLoop added last.
loopCleanup(ls, id) ==
  LET at == { i \in 1..Len(ls) : ls[i] = id }
  IN  IF at = {} THEN ls
      ELSE LET k == CHOOSE i \in at : \A j \in at : j <= i
           IN  SubSeq(ls, 1, k - 1) \o SubSeq(ls, k + 1, Len(ls))

setLoopStart(l, time) == [l EXCEPT !.loopStart = time, !.loopEnd = None]

setLoopEnd(l, time) == [l EXCEPT !.loopEnd = time]

startLoop(l, ls, id) ==
  IF l.loopStart = None \/ l.loopEnd = None
  THEN [loop |-> l, ls |-> ls]
  ELSE [loop |-> [l EXCEPT !.loopCleanup = TRUE, !.isLooping = TRUE],
        ls |-> Append(IF l.loopCleanup THEN loopCleanup(ls, id) ELSE ls, id)]

stopLoop(l, ls, id) ==
  [loop |-> [l EXCEPT !.loopCleanup = FALSE, !.isLooping = FALSE,
                      !.loopStart = None, !.loopEnd = None],
   ls |-> IF l.loopCleanup THEN loopCleanup(ls, id) ELSE ls]

\* toggleLoop taking any time as the end of the loop.
toggleLoopAnyEnd(l, ls, id, cur) ==
  IF l.loopStart = None
  THEN [loop |-> setLoopStart(l, cur), ls |-> ls]
  ELSE IF l.loopEnd = None
  THEN startLoop(setLoopEnd(l, cur), ls, id)
  ELSE LET s == stopLoop(l, ls, id)
       IN  [loop |-> setLoopStart(s.loop, cur), ls |-> s.ls]

\* toggleLoop on the entry id of an element whose currentTime is cur.
toggleLoop(l, ls, id, cur) ==
  IF l.loopStart = None
  THEN [loop |-> setLoopStart(l, cur), ls |-> ls]
  ELSE IF l.loopEnd = None
  THEN IF cur > l.loopStart
       THEN startLoop(setLoopEnd(l, cur), ls, id)
       ELSE [loop |-> setLoopStart(l, cur), ls |-> ls]
  ELSE LET s == stopLoop(l, ls, id)
       IN  [loop |-> setLoopStart(s.loop, cur), ls |-> s.ls]

\* getLoopStatus: entry.loopStart || null gives null for a start at 0 too.
getLoopStatus(m) ==
  LET id == getMediaEntry(m)
  IN  IF id = 0 THEN [isLooping |-> FALSE, start |-> None, end |-> None]
      ELSE [isLooping |-> loops[id].isLooping,
            start |-> IF loops[id].loopStart = 0 THEN None ELSE loops[id].loopStart,
            end |-> IF loops[id].loopEnd = 0 THEN None ELSE loops[id].loopEnd]

\* null as a number, where a handler compares with it or assigns it.
ToNumber(t) == IF t = None THEN 0 ELSE t

\* The handleTimeUpdate closures on an element run in the order they were
\* added; gives the element's currentTime after them.
RECURSIVE RunLoopHandlers(_, _)
RunLoopHandlers(ls, cur) ==
  IF ls = << >> THEN cur
  ELSE RunLoopHandlers(Tail(ls),
                       IF cur >= ToNumber(loops[Head(ls)].loopEnd)
                       THEN ToNumber(loops[Head(ls)].loopStart)
                       ELSE cur)

NoLoopGhost == toggled' = NoToggle /\ jump' = NoJump

(***************************************************************************)
(* The clock.                                                              *)
(***************************************************************************)
Tick(d) ==
  /\ now + d <= StartNow + MaxTicks * d
  /\ now' = now + d
  /\ NoGhost
  /\ UNCHANGED << seekVars, keyVars, others, paused, rate, geometry, vscId, nextId, registry, entries,
                  listeners, pending, active, guardWrites >>

(***************************************************************************)
(* Discovery (state.js setupMediaElement): registerMedia, then             *)
(* setupAntiReset when settings.antiResetPatch is on.                      *)
(***************************************************************************)
RegisterMedia(m) ==
  /\ vscId[m] = 0
  /\ nextId <= MaxIds
  /\ vscId' = [vscId EXCEPT ![m] = nextId]
  /\ nextId' = nextId + 1
  /\ registry' = Append(registry, nextId)
  /\ entries' = [entries EXCEPT ![nextId] = [NoEntry EXCEPT !.media = m]]
  /\ listeners' = IF Settings.antiResetPatch
                  THEN [listeners EXCEPT ![m] = Append(@, nextId)]
                  ELSE listeners
  /\ guardWrites' = [guardWrites EXCEPT ![m] = 0]
  /\ loops' = [loops EXCEPT ![nextId] = NoLoop]
  /\ NoGhost
  /\ NoLoopGhost
  /\ UNCHANGED << seekVars, keyVars, nonLoop, loopListeners, now, paused, rate, geometry,
                  pending, active >>

\* unregisterMedia (run by cleanupRemovedMedia): the entry leaves the registry
\* and the element loses its id; the anti-reset listeners stay attached, since
\* entry.antiResetCleanup is not called; entry.loopCleanup is.
UnregisterMedia(m) ==
  /\ vscId[m] # 0
  /\ registry' = SelectSeq(registry, LAMBDA id : id # vscId[m])
  /\ vscId' = [vscId EXCEPT ![m] = 0]
  /\ guardWrites' = [guardWrites EXCEPT ![m] = 0]
  /\ loopListeners' =
       IF InRegistry(vscId[m]) /\ loops[vscId[m]].loopCleanup
       THEN [loopListeners EXCEPT ![m] = loopCleanup(@, vscId[m])]
       ELSE loopListeners
  /\ NoGhost
  /\ NoLoopGhost
  /\ UNCHANGED << seekVars, keyVars, nonLoop, loops, now, paused, rate, geometry, nextId,
                  entries, listeners, pending, active >>

(***************************************************************************)
(* Page and user events on an element.                                     *)
(***************************************************************************)
\* The entries after updateInteraction(m).
Interacted(m) ==
  IF getMediaEntry(m) # 0
  THEN [entries EXCEPT ![getMediaEntry(m)] = updateInteraction(@, now)]
  ELSE entries

\* 'play' on a paused element (state.js handlePlay: updateInteraction).
Play(m) ==
  /\ paused[m]
  /\ paused' = [paused EXCEPT ![m] = FALSE]
  /\ entries' = Interacted(m)
  /\ NoGhost
  /\ UNCHANGED << seekVars, keyVars, others, now, rate, geometry, vscId, nextId, registry, listeners,
                  pending, active, guardWrites >>

\* 'pause' (state.js handlePause: updateInteraction).
Pause(m) ==
  /\ ~paused[m]
  /\ paused' = [paused EXCEPT ![m] = TRUE]
  /\ entries' = Interacted(m)
  /\ NoGhost
  /\ UNCHANGED << seekVars, keyVars, others, now, rate, geometry, vscId, nextId, registry, listeners,
                  pending, active, guardWrites >>

\* The guard listeners of m handle one notification.
Notify(m) ==
  LET r == RunListeners(listeners[m], entries, rate[m], now)
  IN  /\ entries' = r.entries
      /\ rate' = [rate EXCEPT ![m] = r.rate]
      /\ guardWrites' = [guardWrites EXCEPT ![m] = @ + r.writes]
      /\ observed' = << m, rate[m] >>
      /\ call' = NoCall /\ prior' = NoCall /\ chosen' = -1 /\ returned' = -1

\* 'playing' on an element that is not paused: playback starts, or resumes
\* after a stall (media.js handlePlaying: handleRateChange).
Playing(m) ==
  /\ ~paused[m]
  /\ listeners[m] # << >>
  /\ LET r == RunListeners(listeners[m], entries, rate[m], now)
     IN  /\ pending[m] + r.queued <= MaxPending
         /\ pending' = [pending EXCEPT ![m] = @ + r.queued]
  /\ Notify(m)
  /\ UNCHANGED << seekVars, keyVars, others, now, paused, geometry, vscId, nextId, registry, listeners, active >>

\* A page script writes media.playbackRate: a ratechange notification is queued.
PageSetRate(m, v) ==
  /\ v # rate[m]
  /\ pending[m] < MaxPending
  /\ rate' = [rate EXCEPT ![m] = v]
  /\ pending' = [pending EXCEPT ![m] = @ + 1]
  /\ guardWrites' = [guardWrites EXCEPT ![m] = 0]
  /\ NoGhost
  /\ UNCHANGED << seekVars, keyVars, others, now, paused, geometry, vscId, nextId, registry, entries,
                  listeners, active >>

\* One queued ratechange notification of m is delivered to the guard listeners.
DeliverRateChange(m) ==
  /\ pending[m] > 0
  /\ LET r == RunListeners(listeners[m], entries, rate[m], now)
     IN  /\ (pending[m] - 1) + r.queued <= MaxPending
         /\ pending' = [pending EXCEPT ![m] = (@ - 1) + r.queued]
  /\ Notify(m)
  /\ UNCHANGED << seekVars, keyVars, others, now, paused, geometry, vscId, nextId, registry, listeners, active >>

(***************************************************************************)
(* Keyboard actions (keys.js executeAction) and overlay buttons (dom.js    *)
(* handleButtonClick).                                                     *)
(***************************************************************************)
SpeedActions == { "dec", "inc", "reset" }
OtherActions == { "back", "fwd", "toggle" }

\* The speed a dec / inc / reset request asks for on an element at rate cur.
NewSpeed(action, cur) ==
  CASE action = "dec" -> ClampRate(cur - Settings.step)
    [] action = "inc" -> ClampRate(cur + Settings.step)
    [] OTHER -> DefaultRate

\* applySpeed(m, newSpeed, force) followed by setPreferredSpeed(m, newSpeed),
\* on entry object e of element m: the call record and the entry left.
ChangeSpeed(m, e, action, throws) ==
  LET newSpeed == NewSpeed(action, rate[m])
      a == applySpeed(e, rate[m], Num(newSpeed), action = "reset", now, throws)
  IN  [rec |-> CallRecord(m, e, Num(newSpeed), action = "reset", throws, a),
       rate |-> a.rate,
       entry |-> setPreferredSpeed(a.entry, newSpeed, now)]

\* seekMedia on an element at currentTime cur with duration dur.
seekMedia(cur, dur, seconds) ==
  IF dur.k = "num" THEN clamp(Num(cur + seconds), Num(0), dur).v ELSE cur

\* What a back / fwd / toggle action on element m (0: none) leaves of
\* currentTime and of the overlay's visibility.
Seeks(m, action) ==
  /\ currentTime' =
       IF m # 0 /\ action = "back"
       THEN [currentTime EXCEPT ![m] = seekMedia(@, duration[m], -Settings.seekSec)]
       ELSE IF m # 0 /\ action = "fwd"
       THEN [currentTime EXCEPT ![m] = seekMedia(@, duration[m], Settings.seekSec)]
       ELSE currentTime
  /\ visible' = IF m # 0 /\ action = "toggle"
                THEN [visible EXCEPT ![m] = ~@] ELSE visible

\* executeAction: activeMedia(), updateInteraction, then the action.
executeAction(action, throws) ==
  LET m == activeMedia
      id == IF m = 0 THEN 0 ELSE getMediaEntry(m)
  IN  /\ active' = m
      /\ returned' = m
      /\ chosen' = chooseActiveMedia
      /\ observed' = << 0, 0 >> /\ prior' = NoCall
      /\ IF id = 0 \/ action \notin SpeedActions
         THEN /\ throws = FALSE
              /\ entries' = IF id = 0 THEN entries
                            ELSE [entries EXCEPT ![id] = updateInteraction(@, now)]
              /\ call' = NoCall
              /\ UNCHANGED << rate, pending, guardWrites >>
         ELSE LET c == ChangeSpeed(m, updateInteraction(entries[id], now), action, throws)
              IN  /\ pending[m] + c.rec.queued <= MaxPending
                  /\ entries' = [entries EXCEPT ![id] = c.entry]
                  /\ rate' = [rate EXCEPT ![m] = c.rate]
                  /\ pending' = [pending EXCEPT ![m] = @ + c.rec.queued]
                  /\ call' = c.rec
                  /\ guardWrites' = [guardWrites EXCEPT ![m] = 0]
      /\ Seeks(m, action)
      /\ UNCHANGED << duration, extra, now, paused, geometry, vscId, nextId, registry, listeners >>

\* One executeAction call outside the handling of a key press.
ExecuteAction(action, throws) ==
  executeAction(action, throws) /\ UNCHANGED << keyVars, setVars >>

\* handleButtonClick on the overlay of a registered element: the action, then
\* updateInteraction.
HandleButtonClick(m, action, throws) ==
  LET id == getMediaEntry(m)
  IN  /\ id # 0
      /\ IF action \notin SpeedActions
         THEN /\ throws = FALSE
              /\ entries' = [entries EXCEPT ![id] = updateInteraction(@, now)]
              /\ call' = NoCall
              /\ UNCHANGED << rate, pending, guardWrites >>
         ELSE LET c == ChangeSpeed(m, entries[id], action, throws)
              IN  /\ pending[m] + c.rec.queued <= MaxPending
                  /\ entries' = [entries EXCEPT ![id] = updateInteraction(c.entry, now)]
                  /\ rate' = [rate EXCEPT ![m] = c.rate]
                  /\ pending' = [pending EXCEPT ![m] = @ + c.rec.queued]
                  /\ call' = c.rec
                  /\ guardWrites' = [guardWrites EXCEPT ![m] = 0]
      /\ observed' = << 0, 0 >> /\ prior' = NoCall /\ chosen' = -1 /\ returned' = -1
      /\ Seeks(m, action)
      /\ UNCHANGED << keyVars, others, now, paused, geometry, vscId, nextId, registry,
                      listeners, active >>

(***************************************************************************)
(* Direct calls of the media.js interface.                                 *)
(***************************************************************************)
\* The speeds a caller may pass to applySpeed.
SpeedArgs == { Num(-100), Num(175), Num(1000), NaN, PosInf, NegInf }

\* The direct calls followed: <<speed, force, writeThrows>>.  The element
\* refusing the write is followed for the in-range speed only.
ApiCalls ==
  { << s, f, FALSE >> : s \in SpeedArgs, f \in BOOLEAN }
    \cup { << Num(175), f, TRUE >> : f \in BOOLEAN }

\* activeMedia() with no argument (keys.js handleKeyDown, line 59).
ActiveMediaCall ==
  /\ active' = activeMedia
  /\ returned' = activeMedia
  /\ chosen' = chooseActiveMedia
  /\ call' = NoCall /\ prior' = NoCall /\ observed' = << 0, 0 >>
  /\ UNCHANGED << seekVars, keyVars, others, now, paused, rate, geometry, vscId, nextId, registry, entries,
                  listeners, pending, guardWrites >>

\* applySpeed(m, speed, force) on a registered element.
ApplySpeedCall(m, speed, force, throws) ==
  LET id == getMediaEntry(m)
      a == applySpeed(entries[id], rate[m], speed, force, now, throws)
      rec == CallRecord(m, entries[id], speed, force, throws, a)
  IN  /\ id # 0
      /\ pending[m] + rec.queued <= MaxPending
      /\ entries' = [entries EXCEPT ![id] = a.entry]
      /\ rate' = [rate EXCEPT ![m] = a.rate]
      /\ pending' = [pending EXCEPT ![m] = @ + rec.queued]
      /\ call' = rec /\ prior' = NoCall
      /\ observed' = << 0, 0 >>
      /\ guardWrites' = [guardWrites EXCEPT ![m] = 0]
      /\ chosen' = -1 /\ returned' = -1
      /\ UNCHANGED << seekVars, keyVars, others, now, paused, geometry, vscId, nextId, registry, listeners, active >>

\* applySpeed(m, speed, false) called twice in immediate succession.
ApplySpeedTwice(m, speed, throws) ==
  LET id == getMediaEntry(m)
      a == applySpeed(entries[id], rate[m], speed, FALSE, now, throws)
      first == CallRecord(m, entries[id], speed, FALSE, throws, a)
      b == applySpeed(a.entry, a.rate, speed, FALSE, now, throws)
      second == [CallRecord(m, a.entry, speed, FALSE, throws, b) EXCEPT
                   !.preRate = a.rate,
                   !.queued = IF b.rate # a.rate THEN 1 ELSE 0]
  IN  /\ id # 0
      /\ pending[m] + first.queued + second.queued <= MaxPending
      /\ entries' = [entries EXCEPT ![id] = b.entry]
      /\ rate' = [rate EXCEPT ![m] = b.rate]
      /\ pending' = [pending EXCEPT ![m] = @ + first.queued + second.queued]
      /\ call' = second /\ prior' = first
      /\ observed' = << 0, 0 >>
      /\ guardWrites' = [guardWrites EXCEPT ![m] = 0]
      /\ chosen' = -1 /\ returned' = -1
      /\ UNCHANGED << seekVars, keyVars, others, now, paused, geometry, vscId, nextId, registry, listeners, active >>

(***************************************************************************)
(* keys.js: the keydown listeners.  setupKeyListeners adds one capturing   *)
(* listener on window and one on document; its cleanup() removes freshly   *)
(* bound functions, that is, nothing.  A key press is dispatched to the    *)
(* window listeners, then to the document listeners unless propagation was *)
(* stopped.  handleKeyDown runs up to its first await; when the settings   *)
(* are cached its awaits resolve in the microtask checkpoint that follows  *)
(* the listener, before the next listener is called.  When they are not,   *)
(* the first invocation starts the load and the others poll _isLoading.    *)
(***************************************************************************)
AllActions == SpeedActions \cup OtherActions

\* The elements a keydown can be targeted at.
Targets ==
  { Target("video", "inherit", FALSE),
    Target("input", "inherit", FALSE), Target("textarea", "inherit", FALSE),
    Target("select", "inherit", FALSE), Target("div", "true", TRUE),
    Target("div", "plaintext-only", TRUE) }

\* utils.isTyping
isTyping(target) ==
  LET isInput == target.tag = "input" \/ target.tag = "textarea"
      isContentEditable == target.ce = "true"
      isSelect == target.tag = "select"
  IN  isInput \/ isContentEditable \/ isSelect

\* Every handleKeyDown invocation of the last key press has finished.
PressDone == inflight.sync = 0 /\ inflight.loader # "key" /\ inflight.waiters = 0

Settle(f) ==
  IF f.sync = 0 /\ f.loader # "key" /\ f.waiters = 0 THEN [f EXCEPT !.action = ""] ELSE f

NewPress(action, target) ==
  [made |-> TRUE, action |-> action, target |-> target, enabled |-> isEnabled,
   media |-> activeMedia, execs |-> 0, prefCalls |-> 0, prevented |-> FALSE,
   time |-> IF activeMedia = 0 THEN 0 ELSE currentTime[activeMedia]]

\* One handleKeyDown invocation gets past its awaits for press p:
\* preventDefault, stopPropagation, executeAction.
Run(action, p) ==
  /\ executeAction(action, FALSE)
  /\ press' = [p EXCEPT !.execs = @ + 1,
                        !.prevented = TRUE,
                        !.prefCalls = IF action \in SpeedActions /\ activeMedia # 0
                                      THEN @ + 1 ELSE @]

\* A keydown every listener returns from at once: the handler is disabled or
\* the target is one the user types into.
KeyDownIgnored(action, target) ==
  /\ PressDone
  /\ presses < MaxPresses
  /\ presses' = presses + 1
  /\ ~isEnabled \/ isTyping(target)
  /\ press' = NewPress(action, target)
  /\ NoGhost
  /\ UNCHANGED << now, paused, rate, geometry, vscId, nextId, registry, entries,
                  listeners, pending, active, guardWrites, seekVars, setups,
                  isEnabled, inflight, others >>

\* A keydown with the settings cached: the first window listener runs through.
KeyDownCached(action, target) ==
  /\ PressDone
  /\ presses < MaxPresses
  /\ presses' = presses + 1
  /\ isEnabled /\ ~isTyping(target)
  /\ cache # NullSettings /\ ~isLoading
  /\ Run(action, NewPress(action, target))
  /\ inflight' = Settle([action |-> action, sync |-> setups - 1,
                         loader |-> inflight.loader, waiters |-> 0])
  /\ UNCHANGED << setups, isEnabled, setVars >>

\* The next window listener of the press runs through.
NextListener ==
  /\ inflight.sync > 0
  /\ Run(inflight.action, press)
  /\ inflight' = Settle([inflight EXCEPT !.sync = @ - 1])
  /\ UNCHANGED << setups, isEnabled, presses, setVars >>

\* A keydown with no settings cached: every listener on window and document
\* is called; the first starts the load unless one is under way, the others
\* wait for it.
KeyDownUncached(action, target) ==
  /\ PressDone
  /\ presses < MaxPresses
  /\ presses' = presses + 1
  /\ isEnabled /\ ~isTyping(target)
  /\ cache = NullSettings \/ isLoading
  /\ press' = NewPress(action, target)
  /\ isLoading' = TRUE
  /\ inflight' = IF isLoading
                 THEN [action |-> action, sync |-> 0, loader |-> inflight.loader,
                       waiters |-> 2 * setups]
                 ELSE [action |-> action, sync |-> 0, loader |-> "key",
                       waiters |-> 2 * setups - 1]
  /\ NoGhost
  /\ UNCHANGED << now, paused, rate, geometry, vscId, nextId, registry, entries,
                  listeners, pending, active, guardWrites, seekVars, setups,
                  isEnabled, cache, duration, extra >>

\* chrome.storage.sync.get resolves for the invocation that started the load.
LoaderResumes ==
  /\ inflight.loader = "key"
  /\ Run(inflight.action, press)
  /\ cache' = Settings
  /\ isLoading' = FALSE
  /\ inflight' = Settle([inflight EXCEPT !.loader = "none"])
  /\ UNCHANGED << setups, isEnabled, presses >>

\* ... and for the load setupPageWorldInjection started.
BackgroundLoadResolves ==
  /\ inflight.loader = "bg"
  /\ cache' = Settings
  /\ isLoading' = FALSE
  /\ inflight' = Settle([inflight EXCEPT !.loader = "none"])
  /\ NoGhost
  /\ UNCHANGED << now, paused, rate, geometry, vscId, nextId, registry, entries,
                  listeners, pending, active, guardWrites, seekVars, setups,
                  isEnabled, presses, press, duration, extra >>

\* An invocation that polled _isLoading finds the load finished.
WaiterResumes ==
  /\ inflight.waiters > 0
  /\ ~isLoading
  /\ Run(inflight.action, press)
  /\ inflight' = Settle([inflight EXCEPT !.waiters = @ - 1])
  /\ UNCHANGED << setups, isEnabled, presses, setVars >>

\* chrome.storage.onChanged for the sync area (state.js onStorageChange, keys.js
\* onSettingsChange): the cache is dropped; when the keymap changed,
\* setupKeyListeners and setupPageWorldInjection run again.
StorageChanged(keymapChanged) ==
  /\ PressDone /\ ~isLoading
  /\ cache' = NullSettings
  /\ IF keymapChanged
     THEN /\ setups < MaxSetups
          /\ setups' = setups + 1
          /\ isLoading' = TRUE
          /\ inflight' = [NoneInFlight EXCEPT !.loader = "bg"]
     ELSE UNCHANGED << setups, isLoading, inflight >>
  /\ NoGhost
  /\ UNCHANGED << now, paused, rate, geometry, vscId, nextId, registry, entries,
                  listeners, pending, active, guardWrites, seekVars, isEnabled,
                  presses, press, duration, extra >>

\* keys.destroy(): cleanup(), then _isEnabled = false.
KeysDestroy ==
  /\ PressDone
  /\ isEnabled
  /\ isEnabled' = FALSE
  /\ NoGhost
  /\ UNCHANGED << now, paused, rate, geometry, vscId, nextId, registry, entries,
                  listeners, pending, active, guardWrites, seekVars, setups,
                  inflight, presses, press, others >>

(***************************************************************************)
(* The settings interface of state.js.  One call of loadSettings,          *)
(* updateSetting, disableDomain or enableDomain is under way at a time     *)
(* (op); further loadSettings calls made during a load poll _isLoading.    *)
(***************************************************************************)
contentVars == << now, paused, rate, geometry, vscId, nextId, registry, entries,
                  listeners, pending, active, call, prior, observed, chosen,
                  returned, guardWrites, seekVars, keyVars, duration, pageVars >>

SettingsCalls == { "load", "update", "disable", "enable" }

CallArgs(kind) ==
  CASE kind = "load" -> { 0 }
    [] kind = "update" -> StepArgs
    [] OTHER -> Domains

\* What updateSetting('step', arg), disableDomain(arg), enableDomain(arg) do to
\* the object loadSettings handed them.
Mutated(kind, arg, s) ==
  CASE kind = "update" -> [s EXCEPT !.step = arg]
    [] kind = "disable" -> [s EXCEPT !.disabledDomains = @ \cup { arg }]
    [] kind = "enable" -> [s EXCEPT !.disabledDomains = @ \ { arg }, !.shared = FALSE]

\* The record of a call that returns in this step.
Done(kind, failed, before, n) ==
  [kind |-> kind, failed |-> failed, before |-> before, value |-> getSettings',
   cached |-> cache', loading |-> isLoading', calls |-> n]

\* The call goes on with s, the object loadSettings made the cache or found
\* there: loadSettings returns it; a mutator changes it in place and starts
\* saveSettings.
AfterLoad(kind, arg, before, s, failed, n) ==
  IF kind = "load" \/ (kind = "disable" /\ arg \in s.disabledDomains)
  THEN /\ cache' = s
       /\ UNCHANGED defaultDomains
       /\ op' = NoOp
       /\ outcome' = Done(kind, failed, before, n)
  ELSE /\ cache' = Mutated(kind, arg, s)
       /\ defaultDomains' = IF kind = "disable" /\ s.shared
                            THEN defaultDomains \cup { arg } ELSE defaultDomains
       /\ op' = [kind |-> kind, stage |-> "set", arg |-> arg, before |-> before,
                 obj |-> Mutated(kind, arg, s)]
       /\ outcome' = [outcome EXCEPT !.calls = n]

\* A call of the interface while none is under way.
SettingsCall(kind, arg) ==
  /\ op.kind = "none"
  /\ outcome.calls < MaxCalls
  /\ IF cache # NullSettings
     THEN /\ UNCHANGED isLoading
          /\ AfterLoad(kind, arg, getSettings, cache, FALSE, outcome.calls + 1)
     ELSE /\ isLoading' = TRUE
          /\ op' = [kind |-> kind, stage |-> "get", arg |-> arg,
                    before |-> getSettings, obj |-> NullSettings]
          /\ outcome' = [outcome EXCEPT !.calls = @ + 1]
          /\ UNCHANGED << cache, defaultDomains >>
  /\ UNCHANGED << syncStore, waiting, contentVars >>

\* loadSettings called while a load is under way.
LoadWhileLoading ==
  /\ isLoading
  /\ waiting < MaxWaiting
  /\ waiting' = waiting + 1
  /\ UNCHANGED << syncStore, defaultDomains, op, outcome, setVars, contentVars >>

\* chrome.storage.sync.get resolves (ok) or rejects.
GetResolves(ok) ==
  /\ op.stage = "get"
  /\ isLoading' = FALSE
  /\ AfterLoad(op.kind, op.arg, op.before,
               IF ok THEN validateSettings(FromStore) ELSE DEFAULTS, ~ok, outcome.calls)
  /\ UNCHANGED << syncStore, waiting, contentVars >>

\* chrome.storage.sync.set of saveSettings resolves (ok) or rejects.
SetResolves(ok) ==
  /\ op.stage = "set"
  /\ IF ok
     THEN /\ syncStore' = [saved |-> TRUE, step |-> validateSettings(op.obj).step,
                           disabledDomains |-> op.obj.disabledDomains]
          /\ cache' = validateSettings(op.obj)
     ELSE UNCHANGED << syncStore, cache >>
  /\ op' = NoOp
  /\ UNCHANGED << defaultDomains, isLoading, waiting, contentVars >>
  /\ outcome' = Done(op.kind, ~ok, op.before, outcome.calls)

\* A polling loadSettings call finds _isLoading cleared.
WaiterReturns ==
  /\ waiting > 0
  /\ ~isLoading
  /\ waiting' = waiting - 1
  /\ UNCHANGED << syncStore, defaultDomains, op, setVars, contentVars >>
  /\ outcome' = Done("wait", FALSE, getSettings, outcome.calls)

\* chrome.storage.onChanged for the sync area (onStorageChange).
OnChanged ==
  /\ cache # NullSettings
  /\ cache' = NullSettings
  /\ UNCHANGED << syncStore, defaultDomains, op, waiting, outcome, isLoading,
                  contentVars >>

(***************************************************************************)
(* Speed memory: storeSpeed and getStoredSpeed on chrome.storage.local.    *)
(***************************************************************************)
coreVars == << now, paused, rate, geometry, vscId, nextId, registry, entries,
               listeners, pending, active, call, prior, observed, chosen,
               returned, guardWrites, seekVars, keyVars, duration, setVars,
               stVars >>

quietVars == << coreVars, optVars, lateVars >>

\* state.storeSpeed(speed); ok: chrome.storage.local.set resolves.
storeSpeed(speed, ok) ==
  LET origin == getDomain(page)
      key == SpeedKey(memMode, origin)
      written == memMode # "off" /\ ok
  IN  /\ localStore' = IF written THEN [localStore EXCEPT ![key] = speed]
                       ELSE localStore
      /\ lastGlobal' = IF written /\ memMode = "global" THEN speed ELSE lastGlobal
      /\ lastSite' = IF written /\ memMode = "site"
                     THEN [lastSite EXCEPT ![origin] = speed] ELSE lastSite
      /\ last' = [op |-> "store", mode |-> memMode, origin |-> origin,
                  speed |-> speed, ok |-> ok, value |-> 0,
                  changed |-> localStore' # localStore]
      /\ UNCHANGED << page, memMode, domVars, quietVars >>

\* state.getStoredSpeed(); ok: chrome.storage.local.get resolves.
getStoredSpeed(ok) ==
  LET origin == getDomain(page)
      key == SpeedKey(memMode, origin)
  IN  /\ last' = [op |-> "get", mode |-> memMode, origin |-> origin, speed |-> 0,
                  ok |-> ok,
                  value |-> IF memMode = "off" \/ ~ok THEN 0 ELSE localStore[key],
                  changed |-> FALSE]
      /\ UNCHANGED << localStore, page, memMode, lastGlobal, lastSite, domVars,
                      quietVars >>

\* The user goes to another page.
Navigate(p) ==
  /\ p # page
  /\ page' = p
  /\ UNCHANGED << localStore, memMode, last, lastGlobal, lastSite, domVars,
                  quietVars >>

\* The user chooses another 'Remember speed' mode.
SetMode(mode) ==
  /\ mode # memMode
  /\ memMode' = mode
  /\ UNCHANGED << localStore, page, last, lastGlobal, lastSite, domVars,
                  quietVars >>

(***************************************************************************)
(* Disabled domains: the options page's addDomain, utils.isDomainDisabled, *)
(* and the two places that ask it (content.init and handleKeyDown).        *)
(***************************************************************************)
Lower == { "a", "b", "c", "d", "e", "f", "g", "h", "i", "j", "k", "l", "m",
           "n", "o", "p", "q", "r", "s", "t", "u", "v", "w", "x", "y", "z" }
Upper == { "A", "B", "C", "D", "E", "F", "G", "H", "I", "J", "K", "L", "M",
           "N", "O", "P", "Q", "R", "S", "T", "U", "V", "W", "X", "Y", "Z" }
Digits == { "0", "1", "2", "3", "4", "5", "6", "7", "8", "9" }
Letters == Lower \cup Upper
AlNum == Letters \cup Digits

\* The longest run the middle of the first label may have.
MaxMiddle == 61

\* String.prototype.endsWith
endsWith(str, suffix) ==
  /\ Len(suffix) <= Len(str)
  /\ SubSeq(str, Len(str) - Len(suffix) + 1, Len(str)) = suffix

\* isValidDomain of the options page:
\* /^[a-zA-Z0-9][a-zA-Z0-9-]{0,61}[a-zA-Z0-9]?\.([a-zA-Z]{2,}|[a-zA-Z]{2,}\.[a-zA-Z]{2,})$/
isValidDomain(domain) ==
  LET n == Len(domain)
      c(i) == SubSeq(domain, i, i)
      dots == { i \in 1..n : c(i) = "." }
  IN  /\ dots # {}
      /\ Cardinality(dots) <= 2
      /\ LET first == CHOOSE i \in dots : \A j \in dots : i <= j
             final == CHOOSE i \in dots : \A j \in dots : j <= i
         IN  /\ first >= 2 /\ first - 1 <= MaxMiddle + 2
             /\ c(1) \in AlNum
             /\ \A j \in 2..(first - 1) : c(j) \in AlNum \cup { "-" }
             /\ first - 1 = MaxMiddle + 2 => c(MaxMiddle + 2) \in AlNum
             /\ \A j \in (first + 1)..n : j \in dots \/ c(j) \in Letters
             /\ n - final >= 2
             /\ final # first => final - first - 1 >= 2

\* utils.isDomainDisabled for the page p
isDomainDisabled(disabledDomains, p) ==
  LET currentDomain == getDomain(p)
  IN  \E domain \in disabledDomains :
        currentDomain = domain \/ endsWith(currentDomain, "." \o domain)

\* What a user may type into the options page's domain field.
DomainInputs == { "ab.com", "cd.org", "https://ab.com", "ab.com:8080", "ab" }

SitePages ==
  { Page("https", "ab.com", "", "/"), Page("https", "www.ab.com", "", "/"),
    Page("http", "www.ab.com", ":8080", "/"), Page("https", "cd.org", "", "/"),
    Page("https", "crab.com", "", "/"), Page("https", "ef.net", "", "/") }

otherVars == << coreVars, localStore, memMode, last, lastGlobal, lastSite, optVars,
                lateVars >>

\* addDomain on the options page, saved to the settings.
addDomain(input) ==
  /\ isValidDomain(input)
  /\ input \notin disabledList
  /\ disabledList' = disabledList \cup { input }
  /\ UNCHANGED << page, started, overlays, initCheck, keyCheck, otherVars >>

\* A page is opened and content.init runs in it.
OpenPage(p) ==
  LET isDisabled == isDomainDisabled(disabledList, p)
  IN  /\ page' = p
      /\ started' = ~isDisabled
      /\ overlays' = 0
      /\ initCheck' = [made |-> TRUE, page |-> p, list |-> disabledList,
                       verdict |-> isDisabled, acted |-> ~isDisabled]
      /\ keyCheck' = NoCheck
      /\ UNCHANGED << disabledList, otherVars >>

\* discoverMedia finds an element and registers it with its overlay.
DiscoverMedia ==
  /\ started
  /\ overlays < NumMedia
  /\ overlays' = overlays + 1
  /\ UNCHANGED << page, disabledList, started, initCheck, keyCheck, otherVars >>

\* A mapped key is pressed on the page: handleKeyDown runs if keys.init
\* registered it, and asks isCurrentDomainDisabled.
DomainKeyDown ==
  LET isDisabled == isDomainDisabled(disabledList, page)
  IN  /\ initCheck.made
      /\ keyCheck' = [made |-> TRUE, page |-> page, list |-> disabledList,
                      verdict |-> isDisabled, acted |-> started /\ ~isDisabled]
      /\ UNCHANGED << page, disabledList, started, overlays, initCheck, otherVars >>

(***************************************************************************)
(* The options page's key capture.                                         *)
(***************************************************************************)
\* Key codes (KeyboardEvent.code): the defaults, one more free key, and two
\* of RESERVED_KEYS.
RESERVED_KEYS == { "Space", "Escape" }
Codes == { "KeyS", "KeyD", "KeyR", "KeyZ", "KeyX", "KeyV", "KeyA" } \cup RESERVED_KEYS

MaxTimers == 1

\* checkKeyConflictsForAction without its duplicate check.
checkReservedOnly(action, keyCode) ==
  IF keyCode \in RESERVED_KEYS THEN { << "reserved", action >> } ELSE {}

\* checkKeyConflictsForAction: the conflicts of giving keyCode to action.
checkKeyConflictsForAction(action, keyCode) ==
  { << "duplicate", otherAction >> :
      otherAction \in { o \in DOMAIN keymap : o # action /\ keymap[o] = keyCode } }
  \cup (IF keyCode \in RESERVED_KEYS THEN { << "reserved", action >> } ELSE {})

optionsFrame == << coreVars, memVars, domVars, lateVars >>

\* A click on the key input of an action.
startKeyListening(action) ==
  /\ ~isListeningForKey
  /\ isListeningForKey' = TRUE
  /\ currentKeyInput' = action
  /\ UNCHANGED << keymap, timers, capture, optionsFrame >>

\* keydown on the options page.
handleGlobalKeyDown(code) ==
  /\ isListeningForKey /\ currentKeyInput # ""
  /\ LET action == currentKeyInput
         accepted == /\ code \notin RESERVED_KEYS
                     /\ checkKeyConflictsForAction(action, code) = {}
     IN  /\ keymap' = IF accepted THEN [keymap EXCEPT ![action] = code] ELSE keymap
         /\ isListeningForKey' = IF accepted THEN FALSE ELSE isListeningForKey
         /\ currentKeyInput' = IF accepted THEN "" ELSE currentKeyInput
         /\ capture' = [made |-> TRUE,
                        refusable |-> \/ code \in RESERVED_KEYS
                                      \/ \E o \in DOMAIN keymap \ { action } :
                                           keymap[o] = code,
                        changed |-> keymap' # keymap]
  /\ UNCHANGED << timers, optionsFrame >>

\* keyup on the options page: a timeout of 100 ms is set.
handleGlobalKeyUp ==
  /\ isListeningForKey
  /\ timers < MaxTimers
  /\ timers' = timers + 1
  /\ UNCHANGED << keymap, isListeningForKey, currentKeyInput, capture, optionsFrame >>

\* The timeout fires: stopKeyListening if a key input still waits.
KeyUpTimeout ==
  /\ timers > 0
  /\ timers' = timers - 1
  /\ isListeningForKey' = IF isListeningForKey /\ currentKeyInput # ""
                          THEN FALSE ELSE isListeningForKey
  /\ currentKeyInput' = IF isListeningForKey /\ currentKeyInput # ""
                        THEN "" ELSE currentKeyInput
  /\ UNCHANGED << keymap, capture, optionsFrame >>

(***************************************************************************)
(* page-bridge.js: the guarded playbackRate setter of the page world and   *)
(* the messages that steer it.                                             *)
(***************************************************************************)
BridgeWindowMs == 100

BridgeRates == { 150 }

bridgeFrame == << paused, geometry, vscId, nextId, registry, entries, listeners,
                  active, call, prior, observed, chosen, returned, guardWrites,
                  seekVars, keyVars, duration, setVars, stVars, memVars, domVars,
                  optVars, discVars, loopVars >>

\* createGuardedSetter: media.playbackRate = value at time t through the
\* patched property; gives the new mediaElements and the rate that is set.
GuardedSet(m, value, t) ==
  LET stored == [attempt EXCEPT ![m] = [set |-> TRUE, attemptedRate |-> value,
                                        timestamp |-> t]]
      mediaData == stored[m]
      isRecentVSCChange == mediaData.set /\ (t - mediaData.timestamp) < BridgeWindowMs
  IN  [attempt |-> stored,
       rate |-> IF bridge.isEnabled /\ bridge.preferredRate # 0 /\ ~isRecentVSCChange
                THEN bridge.preferredRate ELSE value]

\* handleMessage: one VSC_PAGE_BRIDGE message.
SetPreferredRate(r, enabled) ==
  /\ bridge' = [bridge EXCEPT !.preferredRate = r, !.isEnabled = enabled]
  /\ bridge' # bridge
  /\ UNCHANGED << now, rate, pending, attempt, vscAt, write, bridgeFrame >>

EnablePatch ==
  /\ bridge' = [bridge EXCEPT !.isEnabled = TRUE, !.patched = TRUE]
  /\ bridge' # bridge
  /\ UNCHANGED << now, rate, pending, attempt, vscAt, write, bridgeFrame >>

DisablePatch ==
  /\ bridge.isEnabled
  /\ bridge' = [bridge EXCEPT !.isEnabled = FALSE]
  /\ UNCHANGED << now, rate, pending, attempt, vscAt, write, bridgeFrame >>

RestorePatch ==
  /\ bridge.patched
  /\ bridge' = [bridge EXCEPT !.patched = FALSE]
  /\ UNCHANGED << now, rate, pending, attempt, vscAt, write, bridgeFrame >>

\* Page code writes media.playbackRate = value.
PageWrite(m, value) ==
  LET r == IF bridge.patched THEN GuardedSet(m, value, now)
           ELSE [attempt |-> attempt, rate |-> value]
  IN  /\ pending[m] < MaxPending
      /\ attempt' = r.attempt
      /\ rate' = [rate EXCEPT ![m] = r.rate]
      /\ pending' = [pending EXCEPT ![m] = IF r.rate # rate[m] THEN @ + 1 ELSE @]
      /\ write' = [made |-> TRUE, media |-> m, value |-> value, after |-> r.rate,
                   isEnabled |-> bridge.isEnabled,
                   preferredRate |-> bridge.preferredRate,
                   patched |-> bridge.patched,
                   recentVsc |-> now - vscAt[m] < BridgeWindowMs]
      /\ UNCHANGED << now, bridge, vscAt, bridgeFrame >>

\* The content script writes the rate in its own world, where the property
\* is the browser's own.
VscWrite(m, value) ==
  /\ pending[m] < MaxPending
  /\ rate' = [rate EXCEPT ![m] = value]
  /\ pending' = [pending EXCEPT ![m] = IF value # rate[m] THEN @ + 1 ELSE @]
  /\ vscAt' = [vscAt EXCEPT ![m] = now]
  /\ UNCHANGED << now, bridge, attempt, write, bridgeFrame >>

(***************************************************************************)
(* Media discovery (state.js discoverMedia, setupMediaElement,             *)
(* cleanupRemovedMedia).  A pass is started by startMediaDiscovery or by a *)
(* timeout the MutationObserver callback set; every callback makes a       *)
(* debounced function of its own, so passes overlap.  Inside                *)
(* setupMediaElement a pass waits for chrome.storage.local in              *)
(* applyStoredSpeed unless rememberSpeed is 'off'; its other awaits find   *)
(* the settings cached and end in the same task.                           *)
(***************************************************************************)
MaxPasses == 2

discFrame == << now, paused, rate, geometry, pending, active, call, prior, observed,
                chosen, returned, seekVars, keyVars, duration, setVars, stVars,
                memVars, domVars, optVars, bridgeVars, toggled, jump >>

\* What a pass reads and writes.
Discovered ==
  [vscId |-> vscId, nextId |-> nextId, registry |-> registry, entries |-> entries,
   listeners |-> listeners, overlayCount |-> overlayCount,
   mediaElements |-> mediaElements, loops |-> loops, loopListeners |-> loopListeners]

EndOfPass == [stage |-> "done", at |-> 0, rest |-> {}]

\* setupMediaElement up to its first wait: createOverlay, registerMedia,
\* setupAntiReset.
SetupStarted(d, m) ==
  [d EXCEPT !.overlayCount[m] = @ + 1,
            !.vscId[m] = d.nextId,
            !.nextId = @ + 1,
            !.registry = Append(@, d.nextId),
            !.entries[d.nextId] = [NoEntry EXCEPT !.media = m],
            !.loops[d.nextId] = NoLoop,
            !.listeners[m] = IF Settings.antiResetPatch THEN Append(@, d.nextId) ELSE @]

\* unregisterMedia: the overlay and the entry of the element's present id go,
\* and that entry's loop handler.
Unregistered(d, m) ==
  IF d.vscId[m] = 0 THEN d
  ELSE [d EXCEPT !.overlayCount[m] = @ - 1,
                 !.registry = SelectSeq(@, LAMBDA id : id # d.vscId[m]),
                 !.loopListeners[m] =
                    IF (\E i \in 1..Len(d.registry) : d.registry[i] = d.vscId[m])
                       /\ d.loops[d.vscId[m]].loopCleanup
                    THEN loopCleanup(@, d.vscId[m]) ELSE @,
                 !.vscId[m] = 0]

RECURSIVE UnregisterAll(_, _)
UnregisterAll(d, ms) ==
  IF ms = {} THEN d
  ELSE LET m == CHOOSE x \in ms : \A y \in ms : x <= y
       IN  UnregisterAll(Unregistered(d, m), ms \ { m })

\* cleanupRemovedMedia
cleanupRemovedMedia(d) ==
  LET removedMedia == { m \in d.mediaElements : ~inDom[m] }
  IN  [UnregisterAll(d, removedMedia) EXCEPT !.mediaElements = @ \ removedMedia]

\* The loop of discoverMedia over the elements of rest, up to the next wait
\* or to the end of the pass.
RECURSIVE Walk(_, _, _)
Walk(d, rest, waits) ==
  LET todo == { m \in rest : m \notin d.mediaElements }
  IN  IF todo = {}
      THEN [d |-> cleanupRemovedMedia(d), pass |-> EndOfPass]
      ELSE LET m == CHOOSE x \in todo : \A y \in todo : x <= y
               d1 == SetupStarted(d, m)
           IN  IF d.nextId > MaxIds
               THEN [d |-> d1, pass |-> EndOfPass]
               ELSE IF waits
               THEN [d |-> d1, pass |-> [stage |-> "setup", at |-> m,
                                         rest |-> rest \ { m }]]
               ELSE Walk([d1 EXCEPT !.mediaElements = @ \cup { m }],
                         rest \ { m }, waits)

\* The state after a pass ran up to its next wait.
PassRan(r, remaining) ==
  /\ r.d.nextId <= MaxIds + 1
  /\ vscId' = r.d.vscId
  /\ nextId' = r.d.nextId
  /\ registry' = r.d.registry
  /\ entries' = r.d.entries
  /\ listeners' = r.d.listeners
  /\ overlayCount' = r.d.overlayCount
  /\ mediaElements' = r.d.mediaElements
  /\ loops' = r.d.loops
  /\ loopListeners' = r.d.loopListeners
  /\ passes' = IF r.pass = EndOfPass THEN remaining ELSE Append(remaining, r.pass)
  /\ guardWrites' = [m \in Media |-> IF r.d.vscId[m] # vscId[m] THEN 0 ELSE guardWrites[m]]
  /\ UNCHANGED << inDom, discFrame >>

\* discoverMedia is called.
discoverMedia ==
  /\ Len(passes) < MaxPasses
  /\ PassRan(Walk(Discovered, { m \in Media : inDom[m] }, memMode # "off"), passes)

\* The wait of pass k inside setupMediaElement ends: the element is added to
\* _mediaElements and the loop goes on.
PassResumes(k) ==
  /\ k \in 1..Len(passes)
  /\ PassRan(Walk([Discovered EXCEPT !.mediaElements = @ \cup { passes[k].at }],
                  passes[k].rest, memMode # "off"),
             SubSeq(passes, 1, k - 1) \o SubSeq(passes, k + 1, Len(passes)))

\* The page adds an element to the document or removes it.
DomChange(m) ==
  /\ inDom' = [inDom EXCEPT ![m] = ~@]
  /\ UNCHANGED << vscId, nextId, registry, entries, listeners, guardWrites,
                  mediaElements, overlayCount, passes, loops, loopListeners, discFrame >>

(***************************************************************************)
(* The loop button, direct stopLoop calls, and the element's timeupdate    *)
(* events.                                                                 *)
(***************************************************************************)
loopFrame == << now, paused, rate, geometry, vscId, nextId, registry, listeners, pending,
                active, call, prior, observed, chosen, returned, guardWrites, visible,
                keyVars, nonLoop >>

\* dom.js handleButtonClick on the loop button of an overlay of element m:
\* toggleLoop(this.media), then updateInteraction(this.media).
LoopButtonClick(m) ==
  LET id == getMediaEntry(m)
      r == toggleLoop(loops[id], loopListeners[m], id, currentTime[m])
  IN  /\ overlayCount[m] > 0
      /\ IF id = 0
         THEN /\ toggled' = [NoToggle EXCEPT !.made = TRUE, !.media = m,
                                             !.time = currentTime[m],
                                             !.heard = Len(loopListeners[m])]
              /\ UNCHANGED << loops, loopListeners >>
         ELSE /\ loops' = [loops EXCEPT ![id] = r.loop]
              /\ loopListeners' = [loopListeners EXCEPT ![m] = r.ls]
              /\ toggled' = [made |-> TRUE, media |-> m, id |-> id, time |-> currentTime[m],
                             pre |-> loops[id], post |-> r.loop, heard |-> Len(r.ls)]
      /\ entries' = Interacted(m)
      /\ jump' = NoJump
      /\ UNCHANGED << currentTime, loopFrame >>

\* media.stopLoop(m) is called.
StopLoopCall(m) ==
  LET id == getMediaEntry(m)
      r == stopLoop(loops[id], loopListeners[m], id)
  IN  /\ id # 0
      /\ loops' = [loops EXCEPT ![id] = r.loop]
      /\ loopListeners' = [loopListeners EXCEPT ![m] = r.ls]
      /\ NoLoopGhost
      /\ UNCHANGED << currentTime, entries, loopFrame >>

\* Playback or a seek takes the element to time t.
TimePasses(m, t) ==
  /\ t # currentTime[m]
  /\ currentTime' = [currentTime EXCEPT ![m] = t]
  /\ NoLoopGhost
  /\ UNCHANGED << loops, loopListeners, entries, loopFrame >>

\* The element fires timeupdate and has loop handlers attached.
TimeUpdate(m) ==
  /\ loopListeners[m] # << >>
  /\ currentTime' = [currentTime EXCEPT ![m] = RunLoopHandlers(loopListeners[m], @)]
  /\ jump' = [made |-> TRUE, media |-> m, from |-> currentTime[m],
              to |-> RunLoopHandlers(loopListeners[m], currentTime[m]),
              status |-> getLoopStatus(m).isLooping]
  /\ toggled' = NoToggle
  /\ UNCHANGED << loops, loopListeners, entries, loopFrame >>

(***************************************************************************)
(* Next-state relations.  Next is the whole extension.  The state space of *)
(* several fully driven elements is beyond exhaustive search, so the       *)
(* claims are checked under restrictions of Next:                          *)
(*   SpecSelect   the registry and the selection inputs of every element;  *)
(*                rates are left alone;                                    *)
(*   SpecGuard    the rate and the guard of one element under overlay      *)
(*                buttons, page writes and notifications; the element may  *)
(*                be unregistered and registered again;                    *)
(*   SpecApply    direct applySpeed calls on one registered element;       *)
(*   SpecKeys     key presses on a page with one element, storage changes  *)
(*                and the loads they cause;                                *)
(*   SpecSettings the settings interface of state.js;                      *)
(*   SpecMemory   storeSpeed / getStoredSpeed over pages and modes;        *)
(*   SpecDomains  the disabled list, content.init and key presses;         *)
(*   SpecOptions  the options page's key capture;                          *)
(*   SpecBridge   the page world's guarded playbackRate setter;            *)
(*   SpecDiscovery  discoverMedia passes over a changing document;         *)
(*   SpecLoop     the loop button on an element that is being discovered.  *)
(***************************************************************************)
Next ==
  \/ Tick(GuardTick)
  \/ Tick(SelectTick)
  \/ \E m \in Media : RegisterMedia(m)
  \/ \E m \in Media : UnregisterMedia(m)
  \/ \E m \in Media : Play(m)
  \/ \E m \in Media : Pause(m)
  \/ \E m \in Media : Playing(m)
  \/ \E m \in Media, v \in PageRates : PageSetRate(m, v)
  \/ \E m \in Media : DeliverRateChange(m)
  \/ \E a \in AllActions, t \in BOOLEAN : ExecuteAction(a, t)
  \/ \E m \in Media, a \in AllActions, t \in BOOLEAN : HandleButtonClick(m, a, t)
  \/ ActiveMediaCall
  \/ \E m \in Media, c \in ApiCalls : ApplySpeedCall(m, c[1], c[2], c[3])
  \/ \E m \in Media, c \in ApiCalls : ApplySpeedTwice(m, c[1], c[3])
  \/ \E a \in AllActions, t \in Targets : KeyDownIgnored(a, t)
  \/ \E a \in AllActions, t \in Targets : KeyDownCached(a, t)
  \/ \E a \in AllActions, t \in Targets : KeyDownUncached(a, t)
  \/ NextListener
  \/ LoaderResumes
  \/ BackgroundLoadResolves
  \/ WaiterResumes
  \/ \E k \in BOOLEAN : StorageChanged(k)
  \/ KeysDestroy
  \/ \E kind \in SettingsCalls : \E arg \in CallArgs(kind) : SettingsCall(kind, arg)
  \/ LoadWhileLoading
  \/ \E ok \in BOOLEAN : GetResolves(ok)
  \/ \E ok \in BOOLEAN : SetResolves(ok)
  \/ WaiterReturns
  \/ OnChanged
  \/ \E speed \in Speeds, ok \in BOOLEAN : storeSpeed(speed, ok)
  \/ \E ok \in BOOLEAN : getStoredSpeed(ok)
  \/ \E p \in Pages : Navigate(p)
  \/ \E mode \in Modes : SetMode(mode)
  \/ \E input \in DomainInputs : addDomain(input)
  \/ \E p \in SitePages : OpenPage(p)
  \/ DiscoverMedia
  \/ DomainKeyDown
  \/ \E action \in DOMAIN keymap : startKeyListening(action)
  \/ \E code \in Codes : handleGlobalKeyDown(code)
  \/ handleGlobalKeyUp
  \/ KeyUpTimeout
  \/ \E r \in BridgeRates \cup { 0 }, e \in BOOLEAN : SetPreferredRate(r, e)
  \/ EnablePatch
  \/ DisablePatch
  \/ RestorePatch
  \/ \E m \in Media, v \in PageRates : PageWrite(m, v)
  \/ \E m \in Media, v \in BridgeRates : VscWrite(m, v)
  \/ discoverMedia
  \/ \E k \in 1..MaxPasses : PassResumes(k)
  \/ \E m \in Media : DomChange(m)
  \/ \E m \in Media : LoopButtonClick(m)
  \/ \E m \in Media : StopLoopCall(m)
  \/ \E m \in Media, t \in LoopTimes : TimePasses(m, t)
  \/ \E m \in Media : TimeUpdate(m)

Spec == Init /\ [][Next]_vars

InitSelect ==
  /\ Init
  /\ paused = [m \in Media |-> TRUE]
  /\ duration = [m \in Media |-> PosInf]

\* The actions that leave the rate alone differ in what they do to currentTime
\* and the overlay, not in what they do to the selection inputs: one is
\* followed, on live streams, where seekMedia leaves currentTime alone.
SelectActions == { "fwd" }

SelectNext ==
  \/ Tick(SelectTick)
  \/ \E m \in Media : RegisterMedia(m)
  \/ \E m \in Media : UnregisterMedia(m)
  \/ \E m \in Media : Play(m)
  \/ \E m \in Media : Pause(m)
  \/ \E a \in SelectActions : ExecuteAction(a, FALSE)
  \/ \E m \in Media, a \in SelectActions : HandleButtonClick(m, a, FALSE)
  \/ ActiveMediaCall

SpecSelect == InitSelect /\ [][SelectNext]_vars

\* The element the guard specifications follow; it is playing.
GuardMedia == { 1 }

InitGuard ==
  /\ Init
  /\ paused = [m \in Media |-> FALSE]
  /\ geometry = [m \in Media |-> IF m = 1 THEN <<20, 5>> ELSE <<100, 20>>]
  /\ duration = [m \in Media |-> PosInf]

GuardNext ==
  \/ Tick(GuardTick)
  \/ \E m \in GuardMedia : RegisterMedia(m)
  \/ \E m \in GuardMedia : UnregisterMedia(m)
  \/ \E m \in GuardMedia : Playing(m)
  \/ \E m \in GuardMedia, v \in PageRates : PageSetRate(m, v)
  \/ \E m \in GuardMedia : DeliverRateChange(m)
  \/ \E m \in GuardMedia, a \in SpeedActions : HandleButtonClick(m, a, FALSE)

SpecGuard == InitGuard /\ [][GuardNext]_vars

ApplyNext ==
  \/ Tick(GuardTick)
  \/ \E m \in GuardMedia : RegisterMedia(m)
  \/ \E m \in GuardMedia : DeliverRateChange(m)
  \/ \E m \in GuardMedia, a \in SpeedActions, t \in BOOLEAN : HandleButtonClick(m, a, t)
  \/ \E m \in GuardMedia, c \in ApiCalls : ApplySpeedCall(m, c[1], c[2], c[3])
  \/ \E m \in GuardMedia, c \in ApiCalls : ApplySpeedTwice(m, c[1], c[3])

SpecApply == InitGuard /\ [][ApplyNext]_vars

\* The keyboard handler with one element whose duration is finite.  While the
\* window listeners of one dispatch are being called nothing else runs.
InitKeys ==
  /\ Init
  /\ paused = [m \in Media |-> FALSE]
  /\ geometry = [m \in Media |-> IF m = 1 THEN <<20, 5>> ELSE <<100, 20>>]
  /\ duration = [m \in Media |-> Num(3 * Settings.seekSec)]

KeysNext ==
  \/ inflight.sync = 0 /\ Tick(GuardTick)
  \/ inflight.sync = 0 /\ \E m \in GuardMedia : RegisterMedia(m)
  \/ inflight.sync = 0 /\ \E m \in GuardMedia : DeliverRateChange(m)
  \/ \E a \in AllActions, t \in Targets : KeyDownIgnored(a, t)
  \/ \E a \in AllActions, t \in Targets : KeyDownCached(a, t)
  \/ \E a \in AllActions, t \in Targets : KeyDownUncached(a, t)
  \/ NextListener
  \/ LoaderResumes
  \/ BackgroundLoadResolves
  \/ WaiterResumes
  \/ \E k \in BOOLEAN : StorageChanged(k)
  \/ KeysDestroy

SpecKeys == InitKeys /\ [][KeysNext]_vars

\* The settings interface on its own.  chrome.storage.sync is empty or holds
\* the defaults the service worker wrote on installation.
InitSettings ==
  /\ InitContent
  /\ paused = [m \in Media |-> TRUE]
  /\ geometry = [m \in Media |-> IF m = 1 THEN << 20, 5 >> ELSE << 100, 20 >>]
  /\ duration = [m \in Media |-> PosInf]
  /\ cache = NullSettings
  /\ isLoading = FALSE
  /\ syncStore \in { EmptyStore,
                     [saved |-> TRUE, step |-> DefaultStep, disabledDomains |-> {}] }
  /\ defaultDomains = {}
  /\ op = NoOp
  /\ waiting = 0
  /\ outcome = NoOutcome
  /\ InitPage

SettingsNext ==
  \/ \E kind \in SettingsCalls : \E arg \in CallArgs(kind) : SettingsCall(kind, arg)
  \/ LoadWhileLoading
  \/ \E ok \in BOOLEAN : GetResolves(ok)
  \/ \E ok \in BOOLEAN : SetResolves(ok)
  \/ WaiterReturns
  \/ OnChanged

SpecSettings == InitSettings /\ [][SettingsNext]_vars

\* Speed memory on its own.
InitQuiet ==
  /\ InitContent
  /\ paused = [m \in Media |-> TRUE]
  /\ geometry = [m \in Media |-> IF m = 1 THEN << 20, 5 >> ELSE << 100, 20 >>]
  /\ duration = [m \in Media |-> PosInf]
  /\ cache = Settings
  /\ isLoading = FALSE

InitMemory ==
  /\ InitQuiet
  /\ InitSt
  /\ InitPage

MemoryNext ==
  \/ \E speed \in Speeds, ok \in BOOLEAN : storeSpeed(speed, ok)
  \/ \E ok \in BOOLEAN : getStoredSpeed(ok)
  \/ \E p \in Pages : Navigate(p)
  \/ \E mode \in Modes : SetMode(mode)

SpecMemory == InitMemory /\ [][MemoryNext]_vars

\* Disabled domains on their own: no page is open yet.
InitDomains ==
  /\ InitQuiet
  /\ InitSt
  /\ InitMem
  /\ InitOpt
  /\ InitLate
  /\ disabledList = {}
  /\ started = FALSE
  /\ overlays = 0
  /\ initCheck = NoCheck
  /\ keyCheck = NoCheck

DomainsNext ==
  \/ \E input \in DomainInputs : addDomain(input)
  \/ \E p \in SitePages : OpenPage(p)
  \/ DiscoverMedia
  \/ DomainKeyDown

SpecDomains == InitDomains /\ [][DomainsNext]_vars

\* The options page on its own, opened with the default keymap.
InitOptions ==
  /\ InitQuiet
  /\ InitSt
  /\ InitPage

OptionsNext ==
  \/ \E action \in DOMAIN keymap : startKeyListening(action)
  \/ \E code \in Codes : handleGlobalKeyDown(code)
  \/ handleGlobalKeyUp
  \/ KeyUpTimeout

SpecOptions == InitOptions /\ [][OptionsNext]_vars

\* The page world of a page with one element, not registered.
BridgeNext ==
  \/ Tick(GuardTick)
  \/ \E r \in BridgeRates \cup { 0 }, e \in BOOLEAN : SetPreferredRate(r, e)
  \/ EnablePatch
  \/ DisablePatch
  \/ RestorePatch
  \/ \E m \in GuardMedia, v \in PageRates : PageWrite(m, v)
  \/ \E m \in GuardMedia, v \in BridgeRates : VscWrite(m, v)
  \/ \E m \in GuardMedia : DeliverRateChange(m)

SpecBridge == InitOptions /\ [][BridgeNext]_vars

\* Discovery on its own, with the default and the other 'Remember speed' modes.
InitDiscovery ==
  /\ InitQuiet
  /\ InitSt
  /\ InitDom
  /\ InitOpt
  /\ InitLate
  /\ localStore = [k \in SpeedKeys |-> 0]
  /\ page = Page("https", "a.com", "", "/")
  /\ memMode \in Modes
  /\ last = NoLast
  /\ lastGlobal = 0
  /\ lastSite = [o \in Origins |-> 0]

DiscoveryNext ==
  \/ discoverMedia
  \/ \E k \in 1..MaxPasses : PassResumes(k)
  \/ \E m \in Media : DomChange(m)

SpecDiscovery == InitDiscovery /\ [][DiscoveryNext]_vars

\* Loops on a page whose elements are discovered while the user works the
\* loop button of the first.
InitLoop ==
  /\ InitDiscovery
  /\ memMode \in { "off", "global" }

LoopNext ==
  \/ discoverMedia
  \/ \E k \in 1..MaxPasses : PassResumes(k)
  \/ \E m \in Media : DomChange(m)
  \/ \E m \in GuardMedia : LoopButtonClick(m)
  \/ \E m \in GuardMedia : StopLoopCall(m)
  \/ \E m \in GuardMedia, t \in LoopTimes : TimePasses(m, t)
  \/ \E m \in GuardMedia : TimeUpdate(m)

SpecLoop == InitLoop /\ [][LoopNext]_vars

(***************************************************************************)
(* Properties of the selection (checked under SpecSelect).                 *)
(***************************************************************************)
SomeRegisteredPlaying ==
  \E i \in 1..Len(registry) : ~paused[entries[registry[i]].media]

\* C1: whenever at least one registered element is playing, chooseActiveMedia
\* returns a playing element, whatever the visibility, last interaction and
\* area of the paused elements.
ChoosesPlaying ==
  SomeRegisteredPlaying => (chooseActiveMedia # 0 /\ ~paused[chooseActiveMedia])

\* C2: a call of activeMedia() with no argument returns a playing element
\* whenever a registered element is playing.  Stated for the calls at which a
\* fresh chooseActiveMedia pass picks a playing element, so that a paused
\* result is due to activeMedia itself.
ReselectionReturnsPlaying ==
  (returned # -1 /\ chosen # 0 /\ ~paused[chosen])
    => (returned # 0 /\ ~paused[returned])

\* The score in the terms of C13, in the units of the model: 1000 for playing,
\* 500 times the visibility ratio, (5000 - elapsed ms) / 10 for an interaction
\* less than 5000 ms old, and the area over 10000.
StatedScore(id) ==
  LET m == entries[id].media
      elapsed == now - entries[id].lastInteraction
  IN  (IF paused[m] THEN 0 ELSE 1000)
      + 5 * geometry[m][1]
      + (IF elapsed < 5000 THEN (5000 - elapsed) \div 10 ELSE 0)
      + geometry[m][2]

\* Playing A (visibility 0.2, area 50000) and paused B (visibility 1.0, area
\* 200000) are the registered elements, A without recent interaction, B
\* without recent interaction or interacted with 1000 ms ago.
StatedScenario ==
  /\ Len(registry) = 2
  /\ geometry[1] = << 20, 5 >> /\ geometry[2] = << 100, 20 >>
  /\ getMediaEntry(1) # 0 /\ getMediaEntry(2) # 0
  /\ ~paused[1] /\ paused[2]
  /\ now - entries[getMediaEntry(1)].lastInteraction >= 5000
  /\ \/ now - entries[getMediaEntry(2)].lastInteraction >= 5000
     \/ now - entries[getMediaEntry(2)].lastInteraction = 1000

\* C13: with two or more registered elements chooseActiveMedia returns an
\* element whose score, as C13 states it, no registered element exceeds; in
\* the scenario of C13 it returns the playing A.
ChoosesMaximalScore ==
  /\ Len(registry) >= 2
       => /\ getMediaEntry(chooseActiveMedia) # 0
          /\ \A i \in 1..Len(registry) :
               StatedScore(registry[i]) <= StatedScore(getMediaEntry(chooseActiveMedia))
  /\ StatedScenario => chooseActiveMedia = 1

\* B was interacted with 1000 ms ago, and the playing A is chosen.
ChoosesMaximalScoreWitness ==
  /\ StatedScenario
  /\ now - entries[getMediaEntry(2)].lastInteraction = 1000
  /\ chooseActiveMedia = 1
  /\ registry[1] = getMediaEntry(2)

(***************************************************************************)
(* Properties of the rate guard (checked under SpecGuard).                 *)
(***************************************************************************)
\* C3: when a ratechange or playing notification is handled on a registered
\* element with the guard installed: strictly before the entry's antiResetUntil
\* a rate more than 0.01 away from the preferred rate is set back to it; at or
\* after antiResetUntil the rate is left as observed.
GuardCorrectsInsideWindowOnly ==
  \A m \in Media :
    LET id == getMediaEntry(m)
        e == entries[id]
        p == IF e.preferredSpeed # 0 THEN e.preferredSpeed ELSE DefaultRate
    IN  (observed[1] = m /\ id # 0 /\ \E i \in 1..Len(listeners[m]) : listeners[m][i] = id)
          => /\ (now < e.antiResetUntil /\ Abs(observed[2] - p) > Epsilon) => rate[m] = p
             /\ (now >= e.antiResetUntil) => rate[m] = observed[2]

\* C4: handling a notification, with or without a corrective write, changes no
\* entry's antiResetUntil: the window still ends 500 ms after the last
\* user-initiated change.
GuardKeepsExpiry ==
  [][ observed' # << 0, 0 >>
        => \A id \in Ids : entries'[id].antiResetUntil = entries[id].antiResetUntil ]_vars

\* A page write inside the window was handled and corrected.
GuardKeepsExpiryWitness ==
  /\ observed[1] # 0
  /\ guardWrites[observed[1]] >= 1
  /\ rate[observed[1]] # observed[2]
  /\ getMediaEntry(observed[1]) # 0
  /\ now > StartNow
  /\ now < entries[getMediaEntry(observed[1])].antiResetUntil

\* C12: once an element is unregistered, no ratechange or playing notification
\* on it makes the extension write its playbackRate.
UnregisteredIsLeftAlone ==
  \A m \in Media :
    (observed[1] = m /\ getMediaEntry(m) = 0) => rate[m] = observed[2]

\* C10: for one rate change from outside the guard, the guard writes the
\* element's rate at most once.
GuardWritesOnce == \A m \in Media : guardWrites[m] <= 1

(***************************************************************************)
(* Properties of applySpeed (checked under SpecApply).                     *)
(***************************************************************************)
CallInsideWindow ==
  call.made /\ call.pre.antiResetUntil # 0 /\ call.time < call.pre.antiResetUntil

Clamped(speed) == clamp(speed, Num(MinRate), Num(MaxRate))

\* C5: applySpeed without force, inside a guard window whose preferred rate
\* differs from the requested one, changes neither the rate nor the entry and
\* does not update the overlay.
BlockedIsNoOp ==
  (CallInsideWindow /\ ~call.force /\ Num(call.pre.preferredSpeed) # call.speed)
    => /\ call.postRate = call.preRate
       /\ call.post = call.pre
       /\ ~call.shown
       /\ call.queued = 0

BlockedIsNoOpWitness ==
  /\ CallInsideWindow /\ ~call.force
  /\ Num(call.pre.preferredSpeed) # call.speed
  /\ Clamped(call.speed) # Num(call.preRate)
  /\ call.blocked

\* C6 as stated: applySpeed with force inside a guard window writes the clamped
\* rate and leaves the entry's preferred rate equal to it.
ForceSetsPreferred ==
  (CallInsideWindow /\ call.force /\ call.wrote)
    => /\ Num(call.postRate) = Clamped(call.speed)
       /\ call.post.preferredSpeed = call.postRate

\* C6: applySpeed with force is not blocked by a guard window; when its write
\* is made the rate is the clamped request and the window is restarted; the
\* entry's preferred rate is left as it was (setPreferredSpeed, called next by
\* every caller, sets it).
ForceBypassesGuard ==
  (CallInsideWindow /\ call.force)
    => /\ ~call.blocked
       /\ call.post.preferredSpeed = call.pre.preferredSpeed
       /\ call.wrote => /\ Num(call.postRate) = Clamped(call.speed)
                        /\ call.post.antiResetUntil = call.time + GuardMs
                        /\ call.shown

ForceBypassesGuardWitness ==
  /\ CallInsideWindow /\ call.force /\ call.wrote
  /\ call.postRate # call.preRate
  /\ call.post.preferredSpeed # call.postRate
  /\ call.post.antiResetUntil > call.pre.antiResetUntil

\* C7 as stated: after applySpeed(media, r, false) twice in immediate
\* succession the preferred rate is r, the rate is r, and the second call left
\* antiResetUntil as the first call set it.
TwiceLeavesPreferred ==
  prior.made
    => /\ Num(call.post.preferredSpeed) = call.speed
       /\ Num(call.postRate) = call.speed
       /\ call.post.antiResetUntil = prior.post.antiResetUntil

\* C7: of two applySpeed(media, r, false) calls in immediate succession the
\* second changes nothing: entry and rate are as the first call left them, and
\* when the first call wrote the rate the second is blocked by the window the
\* first opened, so the rate is the clamped r.  The preferred rate is what it
\* was before the first call.
TwiceIsOnce ==
  prior.made
    => /\ call.post = prior.post
       /\ call.postRate = prior.postRate
       /\ call.post.preferredSpeed = prior.pre.preferredSpeed
       /\ prior.wrote => /\ call.blocked
                         /\ ~call.shown
                         /\ Num(call.postRate) = Clamped(call.speed)

TwiceIsOnceWitness ==
  /\ prior.made /\ prior.wrote /\ call.blocked
  /\ prior.postRate # prior.preRate
  /\ Num(call.post.preferredSpeed) # call.speed

\* C8: applySpeed with force, on an element that accepts the write, ends with a
\* rate inside [0.25, 4.0]: 4.0 for a request of 10.0, 0.25 for -1.0, and a
\* rate in the range for NaN and the infinities.
ForceClamps ==
  (call.made /\ call.force /\ ~call.refused)
    => /\ call.wrote
       /\ MinRate <= call.postRate /\ call.postRate <= MaxRate
       /\ call.speed = Num(1000) => call.postRate = MaxRate
       /\ call.speed = Num(-100) => call.postRate = MinRate

\* C9: when the write of the rate throws, applySpeed returns to its caller
\* with the entry and the rate as they were, the overlay not updated and no
\* notification queued.
WriteFailureLeavesEntry ==
  (call.made /\ call.threw)
    => /\ call.post = call.pre
       /\ call.postRate = call.preRate
       /\ ~call.shown
       /\ call.queued = 0

WriteFailureLeavesEntryWitness ==
  /\ call.made /\ call.threw /\ call.refused
  /\ call.pre.preferredSpeed # 0
  /\ call.time >= call.pre.antiResetUntil

(***************************************************************************)
(* Properties of the keyboard handler (checked under SpecKeys).            *)
(***************************************************************************)
\* The last key press was one the handler is to act on, every invocation it
\* caused has returned, and there was an active element when it was made.
PressHandled ==
  /\ press.made /\ PressDone
  /\ press.enabled /\ ~isTyping(press.target)
  /\ press.media # 0

\* C11: one key press of dec / inc / reset calls setPreferredSpeed exactly
\* once for the target element.
PressSetsPreferredOnce ==
  (PressHandled /\ press.action \in SpeedActions) => press.prefCalls = 1

\* C16: one press of a mapped key executes its action exactly once on the
\* active media; a press of back / fwd moves currentTime by seekSec, clamped
\* to [0, duration].
PressExecutesOnce ==
  PressHandled
    => /\ press.execs = 1
       /\ press.action = "fwd"
            => currentTime[press.media]
                 = seekMedia(press.time, duration[press.media], Settings.seekSec)
       /\ press.action = "back"
            => currentTime[press.media]
                 = seekMedia(press.time, duration[press.media], -Settings.seekSec)

\* C17: a keydown targeted at an input, textarea, select or editable element,
\* or made while the handler is disabled or destroyed, executes no action
\* and gets no preventDefault / stopPropagation.
TypingIsLeftAlone ==
  (/\ press.made
   /\ \/ press.target.tag \in { "input", "textarea", "select" }
      \/ press.target.editable
      \/ ~press.enabled)
    => press.execs = 0 /\ ~press.prevented

(***************************************************************************)
(* Properties of the settings interface (checked under SpecSettings).      *)
(***************************************************************************)
\* C14: when chrome.storage.sync.get fails, loadSettings resolves with the
\* default settings, has cached them, and has cleared the loading flag.
LoadFailureGivesDefaults ==
  (outcome.kind = "load" /\ outcome.failed)
    => /\ outcome.value = ShippedDefaults
       /\ outcome.cached # NullSettings
       /\ Plain(outcome.cached) = outcome.value
       /\ ~outcome.loading

\* C15: when chrome.storage.sync.set fails during updateSetting, disableDomain
\* or enableDomain, getSettings() afterwards gives the settings from before
\* the call.
FailedSaveKeepsLastKnown ==
  (outcome.kind \in { "update", "disable", "enable" } /\ outcome.failed)
    => outcome.value = outcome.before

(***************************************************************************)
(* Properties of the speed memory (checked under SpecMemory).              *)
(***************************************************************************)
\* C18: with rememberSpeed 'off' storeSpeed writes nothing and getStoredSpeed
\* returns null; with 'global' getStoredSpeed returns, on every origin, the
\* speed last stored in that mode on any origin; with 'site' it returns the
\* speed last stored in that mode on the page's own origin (null if none) and
\* so never one stored on another origin.  A read that chrome.storage.local
\* rejects gives null.
SpeedMemoryFollowsMode ==
  /\ (last.op = "store" /\ last.mode = "off") => ~last.changed
  /\ (last.op = "get" /\ last.mode = "off") => last.value = 0
  /\ (last.op = "get" /\ last.mode = "global" /\ last.ok) => last.value = lastGlobal
  /\ (last.op = "get" /\ last.mode = "site" /\ last.ok)
       => last.value = lastSite[last.origin]
  /\ (last.op = "get" /\ ~last.ok) => last.value = 0

SpeedMemoryFollowsModeWitness ==
  /\ last.op = "get" /\ last.mode = "site" /\ last.ok
  /\ last.value # 0
  /\ \E o \in Origins \ { last.origin } : lastSite[o] \notin { 0, last.value }
  /\ lastGlobal \notin { 0, last.value }

(***************************************************************************)
(* Properties of the disabled domains (checked under SpecDomains).         *)
(***************************************************************************)
\* The host of page p is the domain d or a subdomain of it.
HostIsOrUnder(p, d) == p.host = d \/ endsWith(p.host, "." \o d)

Covered(check) ==
  check.made /\ \E d \in check.list : HostIsOrUnder(check.page, d)

\* C19: when the disabled list holds a domain d as the options page accepts
\* it, then on every page whose host is d or a subdomain of d isDomainDisabled
\* is true, content.init starts no discovery, no overlay is registered and a
\* key press executes no action.
DisabledDomainIsOff ==
  /\ Covered(initCheck) => initCheck.verdict /\ ~initCheck.acted /\ overlays = 0
  /\ Covered(keyCheck) => keyCheck.verdict /\ ~keyCheck.acted

(***************************************************************************)
(* Properties of the options page (checked under SpecOptions).             *)
(***************************************************************************)
\* C20: whatever keys are captured, the keymap gives the six actions
\* pairwise different keys, none of them reserved; the capture of a reserved
\* key or of a key another action uses leaves the keymap unchanged.
KeymapStaysValid ==
  /\ \A a, b \in DOMAIN keymap : a # b => keymap[a] # keymap[b]
  /\ \A a \in DOMAIN keymap : keymap[a] \notin RESERVED_KEYS
  /\ (capture.made /\ capture.refusable) => ~capture.changed

KeymapStaysValidWitness ==
  /\ capture.made /\ capture.refusable
  /\ keymap # DefaultKeymap
  /\ isListeningForKey

(***************************************************************************)
(* Properties of the page-world patch (checked under SpecBridge).          *)
(***************************************************************************)
\* C21: with the patch installed and enabled and a preferred rate set, a
\* write by page code of another value, not within 100 ms of a change by
\* the extension, leaves the element at the preferred rate.
PatchKeepsPreferred ==
  (/\ write.made /\ write.patched /\ write.isEnabled
   /\ write.preferredRate # 0
   /\ write.value # write.preferredRate
   /\ ~write.recentVsc)
    => write.after = write.preferredRate

(***************************************************************************)
(* Properties of the discovery (checked under SpecDiscovery).              *)
(***************************************************************************)
\* The registry entries made for element m.
EntriesOf(m) == { i \in 1..Len(registry) : entries[registry[i]].media = m }

\* C22: once no pass is under way, every element has at most one overlay,
\* every element that was set up has exactly one registry entry, and every
\* registry entry is the one some element's id refers to.
DiscoversOnce ==
  passes = << >>
    => /\ \A m \in Media : overlayCount[m] <= 1
       /\ \A m \in mediaElements : Cardinality(EntriesOf(m)) = 1
       /\ \A i \in 1..Len(registry) : \E m \in Media : vscId[m] = registry[i]

(***************************************************************************)
(* Properties of the loop (checked under SpecLoop).                        *)
(***************************************************************************)
\* C23: toggleLoop on a registered element is in one of three phases.  With
\* no start set it records loopStart = currentTime.  With a start and no
\* end it records loopEnd = currentTime and activates looping when
\* currentTime > loopStart, and otherwise replaces loopStart by currentTime
\* without activating.  With a loop active it stops looping, clears both
\* bounds and records loopStart = currentTime.
ToggleIsThreePhase ==
  (toggled.made /\ toggled.id # 0) =>
    LET pre == toggled.pre
        post == toggled.post
        t == toggled.time
    IN  /\ pre.loopStart = None \/ pre.loopEnd = None \/ pre.isLooping
        /\ pre.loopStart = None =>
             /\ post.loopStart = t
             /\ post.isLooping = pre.isLooping
        /\ (pre.loopStart # None /\ pre.loopEnd = None /\ t > pre.loopStart) =>
             /\ post.loopStart = pre.loopStart
             /\ post.loopEnd = t
             /\ post.isLooping
             /\ toggled.heard >= 1
        /\ (pre.loopStart # None /\ pre.loopEnd = None /\ ~(t > pre.loopStart)) =>
             /\ post.loopStart = t
             /\ post.loopEnd = None
             /\ ~post.isLooping
        /\ pre.isLooping =>
             /\ ~post.isLooping
             /\ post.loopStart = t
             /\ post.loopEnd = None

\* A toggle with a loop active, after the toggles that made the loop.
ToggleIsThreePhaseWitness ==
  /\ toggled.made /\ toggled.id # 0
  /\ toggled.pre.isLooping
  /\ toggled.pre.loopEnd > toggled.pre.loopStart
  /\ toggled.post.loopStart = toggled.time
  /\ toggled.heard = 0

\* C24: an element's entry is looping only with both bounds set, the end
\* after the start, and exactly one loop handler on the element; an element
\* whose entry is not looping, or that has no entry, has no loop handler, so
\* no timeupdate event moves its currentTime.
LoopHandlerOnlyWhileLooping ==
  /\ \A m \in Media :
       LET id == getMediaEntry(m)
       IN  /\ (id # 0 /\ loops[id].isLooping) =>
                /\ loops[id].loopStart # None
                /\ loops[id].loopEnd # None
                /\ loops[id].loopEnd > loops[id].loopStart
                /\ Len(loopListeners[m]) = 1
           /\ (id = 0 \/ ~loops[id].isLooping) => loopListeners[m] = << >>
  /\ (jump.made /\ ~jump.status) => jump.to = jump.from

====
